---- MODULE Spec2Model ----
(***************************************************************************)
(* A model of the kama-ui widget manager (kui.core.manager), its commands  *)
(* (package kui.command), the template controller (kui.core.controller)    *)
(* and the startup service (kui.core.service.startup).                     *)
(*                                                                         *)
(* Python objects are modelled with their identity: widget metadata lives  *)
(* in a heap `meta` (MetaId -> fields), widgets in a heap `obj`, the Qt    *)
(* object tree in `kids` (children of each widget in insertion order,      *)
(* index 0 being the window's root widget) and the manager's registry in   *)
(* `widgets`, a sequence of (name, widget) entries in dict order.          *)
(*                                                                         *)
(* The specifications share the variables: Spec drives the manager with    *)
(* plain widgets, SpecT drives it with a widget bound to a template        *)
(* controller, SpecS runs the startup service and its worker threads,      *)
(* SpecR applies resolve_content (kui.core.resolver) to content strings,   *)
(* SpecF drives a FilterBuilder and the KamaFilter it builds                *)
(* (kui.core.filter); SpecE, SpecG, SpecB, SpecY and SpecW drive event     *)
(* refreshes, type registrations, parent rebinding, the style parser and    *)
(* controller workers.                                                     *)
(* A string is modelled as the sequence of its characters.                 *)
(***************************************************************************)
EXTENDS Integers, Sequences, FiniteSets, TLC

VARIABLES
    meta,       \* heap of WidgetMetadata objects: MetaId -> record
    obj,        \* heap of widget objects: ObjId -> [meta, disabled]
    kids,       \* Qt children (= layout order) of the root (0) and of each widget
    widgets,    \* WidgetManager.__widgets, in dict insertion order
    data,       \* length of the list retrieve_data() currently returns
    cstate,     \* WidgetController.__state of each controller: the widget names
                \* it holds an entry for
    widget_types, \* WidgetManager.__widget_types: name -> class
    layout_types, \* WidgetManager.__layout_types: name -> class
    tasks,      \* StartupService.__tasks: the dependencies of each task, by position
    pc,         \* where the thread of each startup task is
    finished,   \* StartupService.__finished_tasks
    queue,      \* finished signals queued for the UI thread, oldest first
    built,      \* the sections KamaWindow.build was called with, in call order
    is_blocked, \* KamaWindow.__is_ui_blocked
    wpc,        \* where each worker handed to WidgetController.work is
    content,    \* the string handed to resolve_content
    resolved,   \* what resolve_content did with it
    criteria,   \* FilterBuilder._criteria, the list a built KamaFilter shares
    pending,    \* the field of the CriteriaBuilder that awaits its operator
    kfilter,    \* has build() returned a KamaFilter
    answer,     \* the last call on the builders or the filter, with what it
                \* returned or raised: [op, arg, val]
    stylesheet, \* the text handed to StyleBuilder.__parse_qss
    blocks      \* the list of StyleBlock it returned

mvars == <<meta, obj, kids, widgets, data, cstate, widget_types, layout_types>>

svars == <<tasks, pc, finished, queue, built, is_blocked, wpc>>

rvars == <<content, resolved>>

\* the variables of the specifications that apply one function to its inputs
fvars == <<criteria, pending, kfilter, answer>>

yvars == <<stylesheet, blocks>>

pvars == <<rvars, fvars, yvars>>

vars == <<mvars, svars, pvars>>

---------------------------------------------------------------------------
(* Bounds of the model. *)

\* the largest number of widget objects a command of Spec may leave alive
MaxObj == 3
\* the longest metadata list handed to Build
MaxBatch == 2
\* the longest dataset retrieve_data() returns
MaxRows == 2
\* the largest number of widgets built from the template host's metadata
MaxHosts == 2
\* the largest number of startup tasks
NTasks == 3

---------------------------------------------------------------------------
(* Python values. *)

\* str(None): the value of an absent string-valued field
None == "None"
\* an absent object reference
NoRef == 0
\* the window's root widget (KamaWindow.root), parent of the root layout
WRoot == 0

\* names under which load_controllers() registered a controller: "C" is a
\* WidgetController, "T" a TemplateWidgetController
Controllers == {"C", "T"}

---------------------------------------------------------------------------
(* The metadata the provider holds.  Every widget has a layout.            *)

MkMeta(id, sec, pwid, ord, ctl) ==
    [id |-> id, oid |-> id, sec |-> sec, pwid |-> pwid, par |-> NoRef,
     ord |-> ord, ctl |-> ctl]

\* f"{parent_widget_id}__template_{area}"
TemplateSection(id, area) == id \o "__template_" \o area

\* Section "s" holds plain widgets a (children b and d, grandchild c) and the
\* template host h; the template of h has a header hd, a footer ft and a
\* body of two segments, r1 (with child k) and r2, listed as the reader
\* lists them: each tag followed by its children.
Catalog ==
    <<  MkMeta("a", "s", None, 2, "C"),
        MkMeta("b", "s", "a", 1, "C"),
        MkMeta("c", "s", "b", 1, None),
        MkMeta("d", "s", "a", 2, "X"),
        MkMeta("h", "s", None, 3, "T"),
        MkMeta("hd", TemplateSection("h", "header"), None, 1, None),
        MkMeta("r1", TemplateSection("h", "body"), None, 1, None),
        MkMeta("k", TemplateSection("h", "body"), "r1", 1, "C"),
        MkMeta("r2", TemplateSection("h", "body"), None, 2, None),
        MkMeta("ft", TemplateSection("h", "footer"), None, 1, None) >>

CatIds == DOMAIN Catalog

\* the events the layout names
Events == {"e1", "e2"}

\* tag.get("refresh_events", "").split(), by the id of the tag
TagEvents(id) ==
    CASE id = "a" -> {"e1"}
      [] id = "b" -> {"e2"}
      [] id = "d" -> {"e1"}
      [] id = "k" -> {"e1"}
      [] OTHER -> {}

\* tag.get("recursive_refresh_events", "").split()
TagRecursiveEvents(id) ==
    CASE id = "a" -> {"e2"}
      [] id = "r1" -> {"e1"}
      [] OTHER -> {}

\* WidgetMetadata.refresh_events: all_events = events + recursive_events
RefreshEvents(m) == TagEvents(m.oid) \cup TagRecursiveEvents(m.oid)

\* refresh_events_meta: a RefreshEventMetadata(True) per recursive event
RefreshEventsMeta(m) == [e \in TagRecursiveEvents(m.oid) |-> TRUE]

\* FilterWidgetCommand._refresh_children of the plain refresh command
NeverRefreshChildren(m, event) == FALSE

\* WidgetMetadata.should_refresh_children
ShouldRefreshChildren(m, event) ==
    IF event \notin DOMAIN RefreshEventsMeta(m) THEN FALSE
    ELSE RefreshEventsMeta(m)[event]

\* the metadata of the plain widgets, and of the template host
PlainIds == {m \in CatIds : Catalog[m].sec = "s" /\ Catalog[m].ctl # "T"}

HostIds == {m \in CatIds : Catalog[m].ctl = "T"}

\* KMLLayoutProvider.provide: the stored list of a section, the same objects
\* at every call
Provide(sec) ==
    SelectSeq([i \in CatIds |-> i], LAMBDA m : Catalog[m].sec = sec)

---------------------------------------------------------------------------
(* Sequences and heaps. *)

SeqToSet(s) == {s[i] : i \in DOMAIN s}

\* str.replace(old, new) for a non-empty old: every occurrence, left to right
RECURSIVE Replace(_, _, _)
Replace(s, old, new) ==
    IF Len(s) < Len(old) THEN s
    ELSE IF SubSeq(s, 1, Len(old)) = old
         THEN new \o Replace(SubSeq(s, Len(old) + 1, Len(s)), old, new)
         ELSE <<Head(s)>> \o Replace(Tail(s), old, new)

Reverse(s) == [i \in DOMAIN s |-> s[Len(s) + 1 - i]]

\* the smallest identifier not in use
NewId(used) ==
    CHOOSE n \in 1..(Cardinality(used) + 1) :
        n \notin used /\ \A k \in 1..(n - 1) : k \in used

RECURSIVE FreshSeq(_, _)
FreshSeq(used, n) ==
    IF n = 0 THEN <<>>
    ELSE LET f == NewId(used) IN <<f>> \o FreshSeq(used \cup {f}, n - 1)

\* the position of x in the sequence s, which holds it
IndexOf(s, x) == CHOOSE i \in DOMAIN s : s[i] = x

---------------------------------------------------------------------------
(* WidgetMetadata properties. *)

Name(mt, m) == mt[m].sec \o "." \o mt[m].id

ParentWidgetId(mt, m) ==
    IF mt[m].par # NoRef THEN mt[mt[m].par].id ELSE mt[m].pwid

ParentWidgetName(mt, m) ==
    IF mt[m].par # NoRef THEN Name(mt, mt[m].par)
    ELSE mt[m].sec \o "." \o ParentWidgetId(mt, m)

\* the metadata m refers to through its parent links, m first
RECURSIVE ParChain(_, _, _)
ParChain(mt, m, seen) ==
    IF m = NoRef \/ m \in seen THEN <<>>
    ELSE <<m>> \o ParChain(mt, mt[m].par, seen \cup {m})

\* acc, followed by everything the metadata of todo refer to, in visit order
RECURSIVE Reach(_, _, _)
Reach(mt, todo, acc) ==
    IF todo = <<>> THEN acc
    ELSE Reach(mt, Tail(todo), acc \o ParChain(mt, Head(todo), SeqToSet(acc)))

---------------------------------------------------------------------------
(* The registry dict. *)

RegNames(reg) == {reg[i].name : i \in DOMAIN reg}

RegGet(reg, name) ==
    LET I == {i \in DOMAIN reg : reg[i].name = name}
    IN  IF I = {} THEN NoRef ELSE reg[CHOOSE i \in I : TRUE].w

RegPut(reg, name, w) ==
    IF name \in RegNames(reg)
    THEN [i \in DOMAIN reg |->
            IF reg[i].name = name THEN [name |-> name, w |-> w] ELSE reg[i]]
    ELSE Append(reg, [name |-> name, w |-> w])

RegDel(reg, name) == SelectSeq(reg, LAMBDA e : e.name # name)

RegValues(reg) == [i \in DOMAIN reg |-> reg[i].w]

\* WidgetManager.get_widget
GetWidget(reg, sec, id) == RegGet(reg, sec \o "." \o id)

---------------------------------------------------------------------------
(* The Qt object tree. *)

\* the Qt parent of widget w, or -1 when w has none
QParent(kd, w) ==
    LET P == {p \in DOMAIN kd : w \in SeqToSet(kd[p])}
    IN  IF P = {} THEN -1 ELSE CHOOSE p \in P : TRUE

Detach(kd, w) ==
    [p \in DOMAIN kd |-> SelectSeq(kd[p], LAMBDA y : y # w)]

RECURSIVE FindChildren(_, _)
RECURSIVE FindAll(_, _)
\* QObject.findChildren: every descendant, each child before its own children
FindChildren(kd, w) == FindAll(kd, kd[w])
FindAll(kd, ws) ==
    IF ws = <<>> THEN <<>>
    ELSE <<Head(ws)>> \o FindChildren(kd, Head(ws)) \o FindAll(kd, Tail(ws))

---------------------------------------------------------------------------
(* The state a command works on: the heaps, the registry (reg), the widgets *)
(* handed to deleteLater() and not yet destroyed (dead), the hook calls    *)
(* made so far (calls), whether an exception is propagating (raised), and  *)
(* rev, which fixes the iteration order of the set() that                  *)
(* ManagerContext.removed_widgets builds (registry order or its reverse).  *)

Machine(rev) ==
    [meta |-> meta, obj |-> obj, kids |-> kids, reg |-> widgets, data |-> data,
     state |-> cstate, dead |-> {}, calls |-> <<>>, raised |-> FALSE, rev |-> rev,
     wtypes |-> widget_types, ltypes |-> layout_types]

MetaOf(S, w) == S.obj[w].meta

WName(S, w) == Name(S.meta, MetaOf(S, w))

\* is widget object w the one the registry holds under its name
IsRegistered(S, w) == RegGet(S.reg, WName(S, w)) = w

---------------------------------------------------------------------------
(* Filters: predicates over metadata. *)

\* a filter no metadata satisfies
NoneFilter == [kind |-> "name", val |-> {}]

\* widget_filter = lambda meta: True, which stands in for a filter of None
AllFilter == [kind |-> "all", val |-> {}]
NameFilter(n) == [kind |-> "name", val |-> {n}]
NamesFilter(ns) == [kind |-> "name", val |-> ns]
SectionFilter(secs) == [kind |-> "section", val |-> secs]
\* lambda meta: event in meta.refresh_events
EventFilter(event) == [kind |-> "event", val |-> event]

Matches(S, f, m) ==
    CASE f.kind = "all" -> TRUE
      [] f.kind = "name" -> Name(S.meta, m) \in f.val
      [] f.kind = "section" -> S.meta[m].sec \in f.val
      [] f.kind = "event" -> f.val \in RefreshEvents(S.meta[m])

\* FilterWidgetCommand._is_applicable over context.widgets
Applicable(S, f) ==
    SelectSeq(RegValues(S.reg), LAMBDA w : Matches(S, f, MetaOf(S, w)))

---------------------------------------------------------------------------
(* WidgetManager.invoke_controllers *)

RECURSIVE InvokeControllers(_, _, _)
RECURSIVE TemplateRefresh(_, _)

\* what a hook is called with: the widgets passed (ws), and whether the
\* registry holds the widget at that moment
HookCall(S, target, w) ==
    [target |-> target, ctl |-> S.meta[MetaOf(S, w)].ctl, ws |-> <<w>>,
     name |-> WName(S, w), live |-> IsRegistered(S, w)]

\* WidgetController.state(widget, key, value): an entry under the widget's name
SetState(S, ctl, w) == [S EXCEPT !.state[ctl] = @ \cup {WName(S, w)}]

\* method(widget, widget.metadata.controller_args): the setup hook of
\* controller "C" stores an entry for its widget, the refresh hook of "T" is
\* TemplateWidgetController.refresh
Hook(S, target, w) ==
    LET S1 == [S EXCEPT !.calls = Append(@, HookCall(S, target, w))]
    IN  IF S.meta[MetaOf(S, w)].ctl = "T" /\ target = "refresh"
        THEN TemplateRefresh(S1, w)
        ELSE IF S.meta[MetaOf(S, w)].ctl = "C" /\ target = "setup"
             THEN SetState(S1, "C", w)
             ELSE S1

\* one call for the whole list, made on the controller of its first widget
InvokeBatched(S, target, ws) ==
    IF ws = <<>> \/ S.meta[MetaOf(S, Head(ws))].ctl \notin Controllers THEN S
    ELSE [S EXCEPT !.calls =
            Append(@, [HookCall(S, target, Head(ws)) EXCEPT !.ws = ws])]

\* an invocation that fails at the first widget without a registered controller
InvokeStrict(S, target, ws) ==
    IF ws = <<>> \/ S.raised THEN S
    ELSE IF S.meta[MetaOf(S, Head(ws))].ctl \notin Controllers
         THEN [S EXCEPT !.raised = TRUE]
         ELSE InvokeControllers(Hook(S, target, Head(ws)), target, Tail(ws))

InvokeControllers(S, target, ws) ==
    IF ws = <<>> \/ S.raised THEN S
    ELSE IF S.meta[MetaOf(S, Head(ws))].ctl \notin Controllers
         THEN InvokeControllers(S, target, Tail(ws))
         ELSE InvokeControllers(Hook(S, target, Head(ws)), target, Tail(ws))

---------------------------------------------------------------------------
(* WidgetManager.__add_widgets *)

Ord(S, w) == S.meta[MetaOf(S, w)].ord

RECURSIVE InsertByOrder(_, _, _)
InsertByOrder(S, s, w) ==
    IF s = <<>> THEN <<w>>
    ELSE IF Ord(S, Head(s)) <= Ord(S, w)
         THEN <<Head(s)>> \o InsertByOrder(S, Tail(s), w)
         ELSE <<w>> \o s

RECURSIVE StableSort(_, _)
StableSort(S, ws) ==
    IF ws = <<>> THEN <<>>
    ELSE InsertByOrder(S, StableSort(S, SubSeq(ws, 1, Len(ws) - 1)), ws[Len(ws)])

\* the list as it was handed over
Unsorted(S, ws) == ws

\* sorted(widgets, key=order_id): a stable sort
SortedByOrder(S, ws) == StableSort(S, ws)

\* the first widget of the batch whose name is pname
BatchParent(S, batch, pname) ==
    LET I == {i \in DOMAIN batch : WName(S, batch[i]) = pname}
    IN  IF I = {} THEN NoRef
        ELSE batch[CHOOSE i \in I : \A j \in I : i <= j]

\* a parent looked up in the registry only
RegistryParent(S, w, batch) ==
    RegGet(S.reg, ParentWidgetName(S.meta, MetaOf(S, w)))

\* the parent __add_widgets resolves for w: the registry first, then the batch
ResolveParent(S, w, batch) ==
    LET pname == ParentWidgetName(S.meta, MetaOf(S, w))
        inReg == RegGet(S.reg, pname)
    IN  IF inReg # NoRef THEN inReg ELSE BatchParent(S, batch, pname)

\* self.__widgets[widget.metadata.name] = widget
Register(S, w) == [S EXCEPT !.reg = RegPut(@, WName(S, w), w)]

\* one iteration of the loop of __add_widgets
AddOne(S, w, batch) ==
    LET m == MetaOf(S, w)
        parent == ResolveParent(S, w, batch)
    IN  IF ParentWidgetId(S.meta, m) = None
        THEN Register([S EXCEPT !.kids[WRoot] = Append(@, w)], w)
        ELSE IF parent = NoRef THEN S
        ELSE Register([S EXCEPT !.meta[m].par = MetaOf(S, parent),
                                !.kids[parent] = Append(@, w)], w)

RECURSIVE AddLoop(_, _, _)
AddLoop(S, sorted, batch) ==
    IF sorted = <<>> THEN S
    ELSE AddLoop(AddOne(S, Head(sorted), batch), Tail(sorted), batch)

\* the widgets the "setup" hook is invoked for
SetupTargets(S, batch) == batch

AddWidgets(S, batch) ==
    IF S.raised THEN S
    ELSE InvokeControllers(AddLoop(S, SortedByOrder(S, batch), batch),
                           "setup", SetupTargets(S, batch))

---------------------------------------------------------------------------
(* WidgetManager.__remove_widgets *)

\* the inner function remove_widget
RemoveOne(S, x) ==
    IF WName(S, x) \notin RegNames(S.reg) THEN S
    ELSE [S EXCEPT !.reg = RegDel(@, WName(S, x)),
                   !.kids = Detach(@, x),
                   !.dead = @ \cup {x}]

RECURSIVE RemoveAll(_, _)
RemoveAll(S, xs) ==
    IF xs = <<>> THEN S ELSE RemoveAll(RemoveOne(S, Head(xs)), Tail(xs))

\* the direct children of w only
CascadeDirect(S, w) == S.kids[w]

\* the widgets removed along with widget w: widget.findChildren(KamaComponentMixin)
Cascade(S, w) == FindChildren(S.kids, w)

RECURSIVE RemoveLoop(_, _)
RemoveLoop(S, ws) ==
    IF ws = <<>> THEN S
    ELSE RemoveLoop(RemoveAll(RemoveOne(S, Head(ws)), Cascade(S, Head(ws))),
                    Tail(ws))

RemoveWidgets(S, ws) == IF S.raised THEN S ELSE RemoveLoop(S, ws)

\* ManagerContext.removed_widgets: list(set(...)), in an order the set decides
RemovedWidgets(S, removed) == IF S.rev THEN Reverse(removed) ELSE removed

---------------------------------------------------------------------------
(* The commands, each with the part of WidgetManager.execute that applies it *)

\* the widget objects WidgetBuildCommand._build_widget creates for a list
NewWidgets(S, ms) == FreshSeq(DOMAIN S.obj, Len(ms))

\* WidgetManager.execute once the command has filled the context
Execute(S, new, removed) ==
    RemoveWidgets(AddWidgets(S, new), RemovedWidgets(S, removed))

BuildCmd(S, ms) ==
    LET ws == NewWidgets(S, ms)
        S1 == [S EXCEPT
                !.obj = [o \in DOMAIN S.obj \cup SeqToSet(ws) |->
                            IF o \in DOMAIN S.obj THEN S.obj[o]
                            ELSE [meta |-> ms[IndexOf(ws, o)],
                                  disabled |-> FALSE]],
                !.kids = [o \in DOMAIN S.kids \cup SeqToSet(ws) |->
                            IF o \in DOMAIN S.kids THEN S.kids[o] ELSE <<>>]]
    IN  Execute(S1, ws, <<>>)

\* a controller whose state survives
KeepState(S, w) == S

\* controller.reset_state(), for the controller of widget w
ResetState(S, w) ==
    [S EXCEPT !.state[S.meta[MetaOf(S, w)].ctl] = {},
              !.calls = Append(@, HookCall(S, "reset_state", w))]

\* the loop of WidgetDeleteCommand.execute over the matched widgets
RECURSIVE ResetLoop(_, _)
ResetLoop(S, ws) ==
    IF ws = <<>> THEN S
    ELSE IF S.meta[MetaOf(S, Head(ws))].ctl \notin Controllers
         THEN ResetLoop(S, Tail(ws))
         ELSE ResetLoop(ResetState(S, Head(ws)), Tail(ws))

DeleteCmd(S, f) ==
    IF S.raised THEN S
    ELSE Execute(ResetLoop(S, Applicable(S, f)), <<>>, Applicable(S, f))

\* widget.disable() / widget.enable() on each widget of ws
SetDisabled(S, ws, flag) ==
    [S EXCEPT !.obj = [o \in DOMAIN S.obj |->
        IF o \in SeqToSet(ws) THEN [S.obj[o] EXCEPT !.disabled = flag] ELSE S.obj[o]]]

DisableCmd(S, f) ==
    Execute(InvokeControllers(SetDisabled(S, Applicable(S, f), TRUE),
                              "disable", Applicable(S, f)), <<>>, <<>>)

EnableCmd(S, f) ==
    Execute(InvokeControllers(SetDisabled(S, Applicable(S, f), FALSE),
                              "enable", Applicable(S, f)), <<>>, <<>>)

\* widget.refresh(refresh_children): the widget re-resolves its content,
\* and so does every descendant when refresh_children is set
WidgetRefresh(S, w, children) ==
    [S EXCEPT !.calls = Append(@,
        [HookCall(S, "widget.refresh", w) EXCEPT
            !.ws = IF children THEN <<w>> \o FindChildren(S.kids, w) ELSE <<w>>])]

RECURSIVE RefreshWidgets(_, _, _)
RefreshWidgets(S, ws, children) ==
    IF ws = <<>> THEN S
    ELSE RefreshWidgets(WidgetRefresh(S, Head(ws), children), Tail(ws), children)

RefreshCmd(S, f) ==
    Execute(InvokeControllers(RefreshWidgets(S, Applicable(S, f), FALSE),
                              "refresh", Applicable(S, f)), <<>>, <<>>)

\* widget_type.__name__.replace("Kama", "K")
TypeName(cls) == Replace(cls, <<"K", "a", "m", "a">>, <<"K">>)

\* a loop that stores the classes in the dict of widgets
RECURSIVE AddToWidgets(_, _)
AddToWidgets(S, ts) ==
    IF ts = <<>> THEN S
    ELSE AddToWidgets([S EXCEPT !.reg = RegPut(@, TypeName(Head(ts)), NoRef)], Tail(ts))

\* for widget_type in context.new_widget_types: the dict entry of each
RECURSIVE AddWidgetTypes(_, _)
AddWidgetTypes(S, ts) ==
    IF ts = <<>> THEN S
    ELSE AddWidgetTypes([S EXCEPT !.wtypes = (TypeName(Head(ts)) :> Head(ts)) @@ @],
                        Tail(ts))

\* for layout_type in context.new_layout_types
RECURSIVE AddLayoutTypes(_, _)
AddLayoutTypes(S, ts) ==
    IF ts = <<>> THEN S
    ELSE AddLayoutTypes([S EXCEPT !.ltypes = (TypeName(Head(ts)) :> Head(ts)) @@ @],
                        Tail(ts))

\* manager.execute(AddWidgetTypeCommand(ts))
AddWidgetTypeCmd(S, ts) == AddWidgetTypes(Execute(S, <<>>, <<>>), ts)

\* manager.execute(AddLayoutTypeCommand(ts))
AddLayoutTypeCmd(S, ts) == AddLayoutTypes(Execute(S, <<>>, <<>>), ts)

\* the loop of WidgetRefreshCommand.execute as WidgetEventRefreshCommand
\* runs it: refresh_children is asked of each widget's metadata
RECURSIVE EventRefreshWidgets(_, _, _)
EventRefreshWidgets(S, ws, event) ==
    IF ws = <<>> THEN S
    ELSE EventRefreshWidgets(
            WidgetRefresh(S, Head(ws),
                ShouldRefreshChildren(S.meta[MetaOf(S, Head(ws))], event)),
            Tail(ws), event)

\* manager.event_refresh(event)
EventRefreshCmd(S, event) ==
    Execute(InvokeControllers(
                EventRefreshWidgets(S, Applicable(S, EventFilter(event)), event),
                "refresh", Applicable(S, EventFilter(event))), <<>>, <<>>)

---------------------------------------------------------------------------
(* TemplateWidgetController *)

\* f"{x}__{idx}"
Suffix(x, idx) == x \o "__" \o ToString(idx)

\* an id that is the same in every row
SameId(oid, idx) == oid

\* widget_meta.id = f"{widget_meta.original_id}__{idx}"
RowId(oid, idx) == Suffix(oid, idx)

\* __get_segment_root: the top-level metadata of target within all
RECURSIVE GetSegmentRoot(_, _, _)
GetSegmentRoot(mt, target, all) ==
    LET I == {i \in DOMAIN all : mt[all[i]].id = ParentWidgetId(mt, target)}
    IN  IF I = {} THEN target
        ELSE GetSegmentRoot(mt, all[CHOOSE i \in I : \A j \in I : i <= j], all)

\* grouped_widgets after one more metadata: a dict in insertion order
GroupAdd(segs, root, m) ==
    IF \E i \in DOMAIN segs : segs[i].root = root
    THEN [i \in DOMAIN segs |->
            IF segs[i].root = root
            THEN [segs[i] EXCEPT !.metas = Append(@, m)] ELSE segs[i]]
    ELSE Append(segs, [root |-> root, metas |-> <<m>>])

RECURSIVE SegmentLoop(_, _, _, _)
SegmentLoop(R, todo, all, host) ==
    IF todo = <<>> THEN R
    ELSE LET root == GetSegmentRoot(R.S.meta, Head(todo), all)
         IN  SegmentLoop([S |-> [R.S EXCEPT !.meta[root].par = host],
                          segs |-> GroupAdd(R.segs, root, Head(todo))],
                         Tail(todo), all, host)

\* __segment_metadata: the machine after it, and the segments it returns
SegmentMetadata(S, sec, w) ==
    SegmentLoop([S |-> S, segs |-> <<>>], Provide(sec), Provide(sec), MetaOf(S, w))

RECURSIVE Flatten(_)
Flatten(segs) ==
    IF segs = <<>> THEN <<>> ELSE Head(segs).metas \o Flatten(Tail(segs))

\* the segments themselves, not a copy
NoCopy(S, segs) == [S |-> S, segs |-> segs]

\* deepcopy(body_segments): a copy of every metadata the segments reach
DeepCopy(S, segs) ==
    LET src == Reach(S.meta, Flatten(segs), <<>>)
        new == FreshSeq(DOMAIN S.meta, Len(src))
        To(m) == IF m = NoRef THEN NoRef ELSE new[IndexOf(src, m)]
    IN  [S |-> [S EXCEPT !.meta =
                    [m \in DOMAIN S.meta \cup SeqToSet(new) |->
                        IF m \in DOMAIN S.meta THEN S.meta[m]
                        ELSE [S.meta[src[IndexOf(new, m)]] EXCEPT !.par = To(@)]]],
         segs |-> [i \in DOMAIN segs |->
                    [root |-> To(segs[i].root),
                     metas |-> [j \in DOMAIN segs[i].metas |-> To(segs[i].metas[j])]]]]

\* a rewrite that leaves parent_widget_id as the provider has it
RewriteIdOnly(S, m, idx, count) ==
    [S EXCEPT !.meta[m] =
        [@ EXCEPT !.ord = count * idx + @,
                  !.id = RowId(S.meta[m].oid, idx)]]

\* the body of the loop over the metadata of one segment of a row
RewriteMeta(S, m, idx, count) ==
    [S EXCEPT !.meta[m] =
        [@ EXCEPT !.ord = count * idx + @,
                  !.id = RowId(S.meta[m].oid, idx),
                  !.pwid = IF S.meta[m].par = NoRef
                           THEN Suffix(ParentWidgetId(S.meta, m), idx) ELSE @]]

RECURSIVE RewriteAll(_, _, _, _)
RewriteAll(S, ms, idx, count) ==
    IF ms = <<>> THEN S
    ELSE RewriteAll(RewriteMeta(S, Head(ms), idx, count), Tail(ms), idx, count)

\* one segment of one row: rewrite, build, and look the segment root up for
\* __invoke_widget_handlers, which fails on None
BuildRowSegment(S, seg, idx, nsegs) ==
    LET S1 == BuildCmd(RewriteAll(S, seg.metas, idx, Len(seg.metas) * nsegs),
                       seg.metas)
        root == GetWidget(S1.reg, S.meta[seg.root].sec,
                          Suffix(S.meta[seg.root].oid, idx))
    IN  IF root = NoRef THEN [S1 EXCEPT !.raised = TRUE] ELSE S1

RECURSIVE BuildRowSegments(_, _, _, _)
BuildRowSegments(S, segs, idx, nsegs) ==
    IF segs = <<>> \/ S.raised THEN S
    ELSE BuildRowSegments(BuildRowSegment(S, Head(segs), idx, nsegs),
                          Tail(segs), idx, nsegs)

\* the copy of the body segments made for one row
RowCopy(S, segs) == DeepCopy(S, segs)

RECURSIVE BuildRows(_, _, _)
BuildRows(S, segs, idx) ==
    IF idx >= S.data \/ S.raised THEN S
    ELSE BuildRows(BuildRowSegments(RowCopy(S, segs).S, RowCopy(S, segs).segs,
                                    idx, Len(segs)),
                   segs, idx + 1)

\* the header and the footer: manager.build(metadata) for each segment
RECURSIVE BuildSegments(_, _)
BuildSegments(S, segs) ==
    IF segs = <<>> \/ S.raised THEN S
    ELSE BuildSegments(BuildCmd(S, Head(segs).metas), Tail(segs))

TemplateSections(S, w) ==
    [a \in {"header", "body", "footer"} |->
        TemplateSection(S.meta[MetaOf(S, w)].id, a)]

\* the body segments refresh works with for host widget w
BodySegments(S, w) ==
    SegmentMetadata(S, TemplateSections(S, w)["body"], w).segs

\* a refresh that builds over what the last one left, footer before body
RefreshInPlace(S, w) ==
    LET sec == TemplateSections(S, w)
        H == SegmentMetadata(S, sec["header"], w)
        B == SegmentMetadata(H.S, sec["body"], w)
        F == SegmentMetadata(B.S, sec["footer"], w)
    IN  BuildRows(BuildSegments(BuildSegments(F.S, H.segs), F.segs), B.segs, 0)

TemplateRefresh(S, w) ==
    LET sec == TemplateSections(S, w)
        H == SegmentMetadata(S, sec["header"], w)
        B == SegmentMetadata(H.S, sec["body"], w)
        F == SegmentMetadata(B.S, sec["footer"], w)
        S1 == DeleteCmd(F.S, SectionFilter({sec["header"], sec["body"], sec["footer"]}))
        S2 == BuildSegments(S1, H.segs)
        S3 == BuildRows(S2, B.segs, 0)
    IN  BuildSegments(S3, F.segs)

---------------------------------------------------------------------------
(* Back in the event loop: deleteLater() destroys the widgets handed to it, *)
(* and the objects nothing refers to any more are collected.               *)

RECURSIVE Top(_, _)
Top(kd, w) ==
    LET p == QParent(kd, w)
    IN  IF p = -1 \/ p = WRoot THEN [top |-> w, root |-> p] ELSE Top(kd, p)

Purge(S) ==
    LET live == DOMAIN S.obj \ S.dead
        kd1 == [p \in (DOMAIN S.kids) \ S.dead |-> S.kids[p]]
        regd == SeqToSet(RegValues(S.reg))
        Tree(t) == {t} \cup SeqToSet(FindChildren(kd1, t))
        keep == {o \in live :
                    LET t == Top(kd1, o)
                    IN  t.root = WRoot \/ Tree(t.top) \cap regd # {}}
    IN  [S EXCEPT
            !.obj = [o \in keep |-> S.obj[o]],
            !.kids = [p \in keep \cup {WRoot} |->
                        SelectSeq(kd1[p], LAMBDA y : y \in keep)],
            !.dead = {}]

---------------------------------------------------------------------------
(* Object identifiers carry no meaning: after each command the widgets are  *)
(* renumbered in the order of the Qt tree (the root's descendants first,   *)
(* then the trees that hang from no parent, by registry position), and the *)
(* metadata in the order the catalog and the widgets refer to them.        *)

RegIndex(reg, w) ==
    LET I == {i \in DOMAIN reg : reg[i].w = w}
    IN  IF I = {} THEN Len(reg) + 1 ELSE CHOOSE i \in I : TRUE

RECURSIVE DetachedOrder(_, _)
DetachedOrder(S, tops) ==
    IF tops = {} THEN <<>>
    ELSE LET Key(t) ==
                 LET ks == {RegIndex(S.reg, o) :
                              o \in {t} \cup SeqToSet(FindChildren(S.kids, t))}
                 IN  CHOOSE k \in ks : \A j \in ks : k <= j
             t0 == CHOOSE t \in tops : \A u \in tops : Key(t) <= Key(u)
         IN  <<t0>> \o FindChildren(S.kids, t0) \o DetachedOrder(S, tops \ {t0})

ObjOrder(S) ==
    FindChildren(S.kids, WRoot)
        \o DetachedOrder(S, {o \in DOMAIN S.obj : QParent(S.kids, o) = -1})

MetaOrder(S) ==
    Reach(S.meta,
          [i \in CatIds |-> S.meta[i].par] \o [i \in DOMAIN S.obj |-> S.obj[i].meta],
          [i \in CatIds |-> i])

CanonObjBy(S, order) ==
    [S EXCEPT
        !.obj = [i \in DOMAIN order |-> S.obj[order[i]]],
        !.kids = [i \in {WRoot} \cup DOMAIN order |->
                    LET ws == IF i = WRoot THEN S.kids[WRoot] ELSE S.kids[order[i]]
                    IN  [j \in DOMAIN ws |-> IndexOf(order, ws[j])]],
        !.reg = [i \in DOMAIN S.reg |->
                    [name |-> S.reg[i].name, w |-> IndexOf(order, S.reg[i].w)]]]

CanonMetaBy(S, order) ==
    [S EXCEPT
        !.meta = [i \in DOMAIN order |->
                    [S.meta[order[i]] EXCEPT
                        !.par = IF @ = NoRef THEN NoRef ELSE IndexOf(order, @)]],
        !.obj = [o \in DOMAIN S.obj |->
                    [S.obj[o] EXCEPT !.meta = IndexOf(order, @)]]]

CanonObj(S) == CanonObjBy(S, ObjOrder(S))

CanonMeta(S) == CanonMetaBy(S, MetaOrder(S))

Canon(S) == CanonMeta(CanonObj(S))

\* the state a command leaves behind once control is back in the event loop
Settle(S) == Canon(Purge(S))

\* a machine that goes on from where S ended
Resume(S, rev) ==
    [S EXCEPT !.dead = {}, !.calls = <<>>, !.raised = FALSE, !.rev = rev]

---------------------------------------------------------------------------
(* The manager driven with plain widgets. *)

MInit ==
    /\ meta = Catalog
    /\ obj = <<>>
    /\ kids = (WRoot :> <<>>)
    /\ widgets = <<>>
    /\ data = 0
    /\ cstate = [c \in Controllers |-> {}]
    /\ widget_types = <<>>
    /\ layout_types = <<>>

SIdle ==
    /\ tasks = <<>>
    /\ pc = <<>>
    /\ finished = <<>>
    /\ queue = <<>>
    /\ built = <<>>
    /\ is_blocked = FALSE
    /\ wpc = <<>>

\* nothing has been handed to resolve_content
RIdle ==
    /\ content = <<>>
    /\ resolved = <<>>

\* FilterBuilder.__init__: no criteria, and nothing called yet
FIdle ==
    /\ criteria = <<>>
    /\ pending = <<>>
    /\ kfilter = FALSE
    /\ answer = <<>>

\* no stylesheet has been parsed
YIdle ==
    /\ stylesheet = <<>>
    /\ blocks = <<>>

PIdle == RIdle /\ FIdle /\ YIdle

Init == MInit /\ SIdle /\ PIdle

\* the manager as machine P leaves it
Install(P) ==
    /\ meta' = P.meta
    /\ obj' = P.obj
    /\ kids' = P.kids
    /\ widgets' = P.reg
    /\ cstate' = P.state
    /\ widget_types' = P.wtypes
    /\ layout_types' = P.ltypes

Commit(S) ==
    \E P \in {Settle(S)} :
        /\ Cardinality(DOMAIN P.obj) <= MaxObj
        /\ Install(P)
        /\ UNCHANGED <<data, svars, pvars>>

\* the names a filter may select by
Names == {Name(Catalog, m) : m \in PlainIds}

Filters == {AllFilter} \cup {NameFilter(n) : n \in Names}

\* the metadata lists handed to manager.build
Batches == UNION {[1..n -> PlainIds] : n \in 1..MaxBatch}

Build == \E ms \in Batches : Commit(BuildCmd(Machine(FALSE), ms))

Delete == \E f \in Filters, rev \in BOOLEAN : Commit(DeleteCmd(Machine(rev), f))

Enable == \E f \in Filters : Commit(EnableCmd(Machine(FALSE), f))

Disable == \E f \in Filters : Commit(DisableCmd(Machine(FALSE), f))

Refresh == \E f \in Filters : Commit(RefreshCmd(Machine(FALSE), f))

EventRefresh == \E e \in Events : Commit(EventRefreshCmd(Machine(FALSE), e))

Next == Build \/ Delete \/ Enable \/ Disable \/ Refresh

Spec == Init /\ [][Next]_vars

\* the classes handed to the type commands
WidgetClasses == {<<"K", "a", "m", "a", "L">>, <<"K", "L">>}

LayoutClasses == {<<"K", "a", "m", "a", "V">>, <<"H">>}

TypeLists(classes) == UNION {[1..n -> classes] : n \in 1..MaxBatch}

AddWidgetType ==
    \E ts \in TypeLists(WidgetClasses) : Commit(AddWidgetTypeCmd(Machine(FALSE), ts))

AddLayoutType ==
    \E ts \in TypeLists(LayoutClasses) : Commit(AddLayoutTypeCmd(Machine(FALSE), ts))

\* the manager driven with builds, deletes and type registrations
NextG == Build \/ Delete \/ AddWidgetType \/ AddLayoutType

SpecG == Init /\ [][NextG]_vars

\* the manager driven with event refreshes
NextE == Build \/ Delete \/ EventRefresh

SpecE == Init /\ [][NextE]_vars

---------------------------------------------------------------------------
(* RebindParentController.setup, called on a registered widget with the    *)
(* 'parent' entry of its controller arguments.  The value of the entry is  *)
(* modelled by the parts str(new_parent).split(".") cuts it into:          *)
(* <<"s", "a">> is the string "s.a", <<"sa">> a string without a dot, and  *)
(* <<>> stands for an entry that is absent.                                *)

\* the widgets built without a layout type (meta.layout_type is None): the
\* ones of the catalog that no other widget names as its parent
NoLayout == {"c", "d", "k", "r2", "hd", "ft"}

\* widget.layout() is not None
HasLayout(S, w) == S.meta[MetaOf(S, w)].oid \notin NoLayout

\* the values args.get("parent") may have
ParentArgs ==
    {<<>>} \cup {<<"s", id>> : id \in {"a", "b", "c", "d", "z"}}
           \cup {<<"sa">>, <<"s", "a", "b">>}

\* new_parent is None: the arguments have no 'parent' entry
Absent(p) == p = <<>>

\* an exception leaves setup
Raise(S) == [S EXCEPT !.raised = TRUE]

\* original_layout.removeWidget(widget); target_layout.addWidget(widget):
\* Qt takes the widget out of the layout it is in and makes it the last
\* child of the target
MoveWidget(S, w, target) ==
    [S EXCEPT !.kids = [Detach(@, w) EXCEPT ![target] = Append(@, w)]]

\* the widget the 'parent' value names, NoRef when the registry has none
RebindTarget(S, p) ==
    IF Len(p) # 2 THEN NoRef ELSE GetWidget(S.reg, p[1], p[2])

\* a setup that moves the widget without any check of its target
RebindUnchecked(S, w, p) ==
    IF Absent(p) \/ Len(p) # 2 THEN Raise(S)
    ELSE IF RebindTarget(S, p) = NoRef THEN S
    ELSE MoveWidget(S, w, RebindTarget(S, p))

RebindSetup(S, w, p) ==
    IF Absent(p) THEN Raise(S)                         \* RuntimeError
    ELSE IF Len(p) # 2 THEN Raise(S)                   \* ValueError (unpack)
    ELSE IF RebindTarget(S, p) = NoRef THEN Raise(S)   \* RuntimeError
    ELSE IF ~HasLayout(S, RebindTarget(S, p)) THEN Raise(S)  \* RuntimeError
    ELSE IF ~HasLayout(S, w) THEN Raise(S)   \* None.removeWidget: AttributeError
    ELSE MoveWidget(S, w, RebindTarget(S, p))

\* the target is neither the widget nor one of its descendants
Outside(S, w, p) ==
    RebindTarget(S, p) \notin {w} \cup SeqToSet(FindChildren(S.kids, w))

Rebind ==
    \E i \in DOMAIN widgets, p \in ParentArgs :
        /\ Outside(Machine(FALSE), widgets[i].w, p)
        /\ Commit(RebindSetup(Machine(FALSE), widgets[i].w, p))

NextB == Build \/ Delete \/ Rebind

SpecB == Init /\ [][NextB]_vars

---------------------------------------------------------------------------
(* The manager driven with a template host. *)

HostCount(S) == Cardinality({o \in DOMAIN S.obj : S.obj[o].meta \in HostIds})

TCommit(S) ==
    \E P \in {Settle(S)} :
        /\ HostCount(P) <= MaxHosts
        /\ Install(P)
        /\ UNCHANGED <<data, svars, pvars>>

HostName == Name(Catalog, CHOOSE m \in HostIds : TRUE)

BodySection == TemplateSection(Catalog[CHOOSE m \in HostIds : TRUE].id, "body")

TFilters ==
    {AllFilter, NameFilter(HostName), SectionFilter({BodySection}),
     NameFilter(BodySection \o ".r1__0"), NameFilter(BodySection \o ".k__1")}

\* build_section: the whole list of the host's section that SpecT uses
TBatches == {<<m>> : m \in HostIds}

TBuild == \E ms \in TBatches : TCommit(BuildCmd(Machine(FALSE), ms))

TDelete == \E f \in TFilters, rev \in BOOLEAN : TCommit(DeleteCmd(Machine(rev), f))

TEnable == \E f \in TFilters : TCommit(EnableCmd(Machine(FALSE), f))

TDisable == \E f \in TFilters : TCommit(DisableCmd(Machine(FALSE), f))

TRefresh == \E f \in TFilters, rev \in BOOLEAN : TCommit(RefreshCmd(Machine(rev), f))

\* the data source changes what retrieve_data() will return
SetData ==
    /\ data' \in (0..MaxRows) \ {data}
    /\ UNCHANGED <<meta, obj, kids, widgets, cstate, widget_types, layout_types,
                   svars, pvars>>

NextT == TBuild \/ TDelete \/ TEnable \/ TDisable \/ TRefresh \/ SetData

SpecT == Init /\ [][NextT]_vars

---------------------------------------------------------------------------
(* The startup service.  A task is known by its position; its name is that *)
(* number, and it may depend on a name no registered task has.             *)

TaskNames == 1..NTasks

DepChoices == {{}} \cup {{d} : d \in TaskNames}

SInit ==
    /\ MInit
    /\ \E n \in 0..NTasks : tasks \in [1..n -> DepChoices]
    /\ pc = [t \in DOMAIN tasks |-> "new"]
    /\ finished = <<>>
    /\ queue = <<>>
    /\ built = <<>>
    /\ is_blocked = FALSE
    /\ wpc = <<>>
    /\ PIdle

\* a worker that never waits
NoDependencies(t) == FALSE

\* a worker that waits until every registered task has finished
WaitsForAll(t) == \E d \in DOMAIN tasks : d \notin SeqToSet(finished)

\* KamaStartupWorker.__has_unfinished_dependencies
HasUnfinishedDependencies(t) ==
    \E d \in tasks[t] : d \notin SeqToSet(finished)

\* a service that builds as soon as one task has finished
AnyFinished(f) == Len(f) >= 1

\* len(self.__finished_tasks) == len(self.__tasks)
AllFinished(f) == Len(f) = Len(tasks)

\* StartupService.start: the wait (or root) section is built, which ends
\* with is_blocked = False, and every task gets its thread, whose started
\* signal runs KamaStartupWorker.start
Start ==
    /\ built = <<>>
    /\ built' = <<IF Len(tasks) > 0 THEN "wait" ELSE "root">>
    /\ is_blocked' = FALSE
    /\ pc' = [t \in DOMAIN tasks |-> "polling"]
    /\ UNCHANGED <<mvars, tasks, finished, queue, wpc, pvars>>

\* KamaStartupWorker.start leaves its polling loop and KamaWorker.start
\* calls _run
BeginRun(t) ==
    /\ pc[t] = "polling"
    /\ ~HasUnfinishedDependencies(t)
    /\ pc' = [pc EXCEPT ![t] = "running"]
    /\ UNCHANGED <<mvars, tasks, finished, queue, built, is_blocked, wpc, pvars>>

\* _run returns and finished is emitted: the callback is queued for the UI thread
EmitFinished(t) ==
    /\ pc[t] = "running"
    /\ pc' = [pc EXCEPT ![t] = "emitted"]
    /\ queue' = Append(queue, t)
    /\ UNCHANGED <<mvars, tasks, finished, built, is_blocked, wpc, pvars>>

\* update_execution_info, run by the UI thread for the oldest queued signal
\* when a startup task sent it; KamaWindow.build ends with is_blocked = False
OnWorkerFinish ==
    /\ queue # <<>>
    /\ Head(queue) \in DOMAIN tasks
    /\ finished' = Append(finished, Head(queue))
    /\ queue' = Tail(queue)
    /\ pc' = [pc EXCEPT ![Head(queue)] = "done"]
    /\ built' = IF AllFinished(finished') THEN Append(built, "root") ELSE built
    /\ is_blocked' = IF AllFinished(finished') THEN FALSE ELSE is_blocked
    /\ UNCHANGED <<mvars, tasks, wpc, pvars>>

NextS ==
    \/ Start
    \/ \E t \in DOMAIN tasks : BeginRun(t)
    \/ \E t \in DOMAIN tasks : EmitFinished(t)
    \/ OnWorkerFinish

SpecS == SInit /\ [][NextS]_vars

\* every started thread goes on running: a task whose polling loop may be
\* left leaves it, a _run returns, and the UI thread goes on taking the
\* signals queued for it
FairSpecS ==
    /\ SpecS
    /\ \A t \in TaskNames :
          /\ WF_vars(t \in DOMAIN tasks /\ BeginRun(t))
          /\ WF_vars(t \in DOMAIN tasks /\ EmitFinished(t))
    /\ WF_vars(OnWorkerFinish)

---------------------------------------------------------------------------
(* Controllers that hand workers to WidgetController.work while the        *)
(* startup service runs.  Every worker comes from a controller of its own  *)
(* and is known by a number that no startup task has.  The widgets of the  *)
(* sections are left out, so the manager.disable() and manager.enable()    *)
(* of the is_blocked setter act on no widget.                              *)

\* the most workers controllers hand in
MaxWorkers == 2

Workers == (NTasks + 1)..(NTasks + MaxWorkers)

WInit ==
    /\ MInit
    /\ \E n \in 0..NTasks : tasks \in [1..n -> DepChoices]
    /\ pc = [t \in DOMAIN tasks |-> "new"]
    /\ finished = <<>>
    /\ queue = <<>>
    /\ built = <<>>
    /\ is_blocked = FALSE
    /\ wpc = [w \in Workers |-> "new"]
    /\ PIdle

\* a work() that starts the worker whatever the window's state
WorkUnguarded(w) ==
    /\ built # <<>>
    /\ wpc[w] = "new"
    /\ wpc' = [wpc EXCEPT ![w] = "running"]
    /\ is_blocked' = TRUE
    /\ UNCHANGED <<mvars, tasks, pc, finished, queue, built, pvars>>

\* WidgetController.work(worker), called by a hook or a handler of the UI
\* thread once the window has been built: execute_in_blocking_thread
\* returns at once when the window is blocked, else it connects on_finish,
\* starts the thread (whose started signal runs KamaWorker.start, and so
\* _run) and sets is_blocked = True
Work(w) ==
    /\ built # <<>>
    /\ wpc[w] = "new"
    /\ wpc' = [wpc EXCEPT ![w] = IF is_blocked THEN "dropped" ELSE "running"]
    /\ is_blocked' = TRUE
    /\ UNCHANGED <<mvars, tasks, pc, finished, queue, built, pvars>>

\* _run returns and KamaWorker.start emits finished: on_finish is queued
\* for the UI thread
EmitWorkerFinished(w) ==
    /\ wpc[w] = "running"
    /\ wpc' = [wpc EXCEPT ![w] = "emitted"]
    /\ queue' = Append(queue, w)
    /\ UNCHANGED <<mvars, tasks, pc, finished, built, is_blocked, pvars>>

\* on_finish, run by the UI thread for the oldest queued signal when a
\* worker of a controller sent it
OnFinish ==
    /\ queue # <<>>
    /\ Head(queue) \in Workers
    /\ queue' = Tail(queue)
    /\ wpc' = [wpc EXCEPT ![Head(queue)] = "done"]
    /\ is_blocked' = FALSE
    /\ UNCHANGED <<mvars, tasks, pc, finished, built, pvars>>

NextW ==
    \/ Start
    \/ \E t \in DOMAIN tasks : BeginRun(t)
    \/ \E t \in DOMAIN tasks : EmitFinished(t)
    \/ OnWorkerFinish
    \/ \E w \in Workers : Work(w)
    \/ \E w \in Workers : EmitWorkerFinished(w)
    \/ OnFinish

SpecW == WInit /\ [][NextW]_vars

\* every thread goes on running, and the UI thread goes on taking the
\* signals queued for it
FairSpecW ==
    /\ SpecW
    /\ \A t \in TaskNames :
          /\ WF_vars(t \in DOMAIN tasks /\ BeginRun(t))
          /\ WF_vars(t \in DOMAIN tasks /\ EmitFinished(t))
    /\ \A w \in Workers : WF_vars(EmitWorkerFinished(w))
    /\ WF_vars(OnWorkerFinish)
    /\ WF_vars(OnFinish)

---------------------------------------------------------------------------
(* resolve_content.  A value is a string (a sequence of characters), an     *)
(* int, None, or the exception that was raised instead of a value.         *)

StrV(s) == [t |-> "str", v |-> s]

IntV(n) == [t |-> "int", v |-> n]

NoneV == [t |-> "None", v |-> 0]

Raised(e) == [t |-> "raise", v |-> e]

\* the characters of the model's strings that \w does not match
NonWord == {"{", "}", ",", " "}

IsWord(c) == c \notin NonWord

\* str.lower, over the characters the model uses
Lower(s) == [i \in DOMAIN s |-> IF s[i] = "D" THEN "d" ELSE s[i]]

\* the index of the last x in s, 0 when there is none
LastIndex(s, x) ==
    LET I == {i \in DOMAIN s : s[i] = x}
    IN  IF I = {} THEN 0 ELSE CHOOSE i \in I : \A j \in I : j <= i

\* the end of the run of word characters that starts at i
RunEnd(s, i) ==
    CHOOSE j \in i..Len(s) :
        /\ \A k \in i..j : IsWord(s[k])
        /\ (j = Len(s) \/ ~IsWord(s[j + 1]))

\* re.compile(r"(\w+)\{(.*)}").search(s): the leftmost start from which a
\* run of word characters is followed by "{" and, later, by a "}"; the
\* second group reaches to the last "}".  0 when nothing matches.
MatchStart(s) ==
    LET I == {i \in DOMAIN s :
                /\ IsWord(s[i])
                /\ RunEnd(s, i) < Len(s)
                /\ s[RunEnd(s, i) + 1] = "{"
                /\ LastIndex(s, "}") > RunEnd(s, i) + 1}
    IN  IF I = {} THEN 0 ELSE CHOOSE i \in I : \A j \in I : i <= j

\* match.group(0), match.group(1) and match.group(2)
FullToken(s) == SubSeq(s, MatchStart(s), LastIndex(s, "}"))

TokenName(s) == SubSeq(s, MatchStart(s), RunEnd(s, MatchStart(s)))

TokenBody(s) == SubSeq(s, RunEnd(s, MatchStart(s)) + 2, LastIndex(s, "}") - 1)

\* str.split(sep) for a separator of one character
RECURSIVE Split(_, _)
Split(s, sep) ==
    LET I == {i \in DOMAIN s : s[i] = sep}
    IN  IF I = {} THEN <<s>>
        ELSE LET i == CHOOSE k \in I : \A j \in I : k <= j
             IN  <<SubSeq(s, 1, i - 1)>> \o Split(SubSeq(s, i + 1, Len(s)), sep)

\* str.strip()
RECURSIVE Strip(_)
Strip(s) ==
    IF s = <<>> THEN s
    ELSE IF Head(s) = " " THEN Strip(Tail(s))
    ELSE IF s[Len(s)] = " " THEN Strip(SubSeq(s, 1, Len(s) - 1))
    ELSE s

\* the strings the model names
Date == <<"d", "a", "t", "e">>

DateUpper == <<"D", "a", "t", "e">>

Tr == <<"t", "r">>

Foo == <<"f", "o", "o">>

Year == <<"y", "e", "a", "r">>

Hello == <<"h", "i">>

\* datetime.now().year
ThisYear == 2024

\* f"{token_name.lower()}resolver"
ResolverName(name) == Lower(name) \o <<"r", "e", "s", "o", "l", "v", "e", "r">>

\* get_core_resolvers(): the resolvers of classes DateResolver and TrResolver
Resolvers == {ResolverName(Date), ResolverName(Tr)}

\* DateResolver.resolve
DateResolve(key) == IF key = StrV(Year) THEN IntV(ThisYear) ELSE NoneV

\* TrResolver.resolve, with a text resource for the key "year" only: any
\* other key is returned as it is
TrResolve(key) == IF key = StrV(Year) THEN StrV(Hello) ELSE key

\* resolver.resolve(parameter, *args, **kw) or ""
CallResolver(rname, param) ==
    LET r == IF rname = ResolverName(Date) THEN DateResolve(param) ELSE TrResolve(param)
    IN  IF r = NoneV \/ r = IntV(0) \/ r = StrV(<<>>) THEN StrV(<<>>) ELSE r

\* resolvers.get(resolver_name): the resolver, or None
Lookup(rname) == IF rname \in Resolvers THEN rname ELSE <<>>

RECURSIVE ResolveContent(_, _)
RECURSIVE ResolveProps(_, _)

\* the loop over the properties after the first, none of which holds a ":"
ResolveProps(props, calls) ==
    IF props = <<>> THEN [val |-> NoneV, calls |-> calls]
    ELSE LET K == ResolveContent(StrV(Strip(Head(props))), calls)
         IN  IF K.val.t = "raise" THEN K ELSE ResolveProps(Tail(props), K.calls)

\* resolve_content(content, resolvers): the value returned or the exception
\* raised (val), after calls, the resolver calls made so far in order
ResolveContent(c, calls) ==
    IF c.t # "str" \/ MatchStart(c.v) = 0 THEN [val |-> c, calls |-> calls]
    ELSE LET props == Split(TokenBody(c.v), ",")
             P == ResolveContent(StrV(Head(props)), calls)
             A == ResolveProps(Tail(props), P.calls)
             resolver == Lookup(ResolverName(TokenName(c.v)))
             called == Append(A.calls, [name |-> Lower(TokenName(c.v)), param |-> P.val])
             r == CallResolver(resolver, P.val)
         IN  IF P.val.t = "raise" THEN P
             ELSE IF A.val.t = "raise" THEN A
             ELSE IF resolver = <<>>
                  THEN [val |-> Raised("AttributeError"), calls |-> A.calls]
             ELSE IF r.t = "str"
                  THEN ResolveContent(StrV(Replace(c.v, FullToken(c.v), r.v)), called)
                  ELSE ResolveContent(r, called)

---------------------------------------------------------------------------
(* resolve_content applied to content strings. *)

\* the most pieces a content string is put together from, between its affixes
MaxPieces == 3

Token(name, body) == name \o <<"{">> \o body \o <<"}">>

Pieces ==
    {<<",">>, <<" ">>, <<"}">>, Year,
     Date \o <<"{">>, DateUpper \o <<"{">>, Tr \o <<"{">>, Foo \o <<"{">>,
     Token(Date, Year), Token(Tr, Year), Token(Foo, Year)}

Prefixes == {<<>>, <<"p", "r", "e", "f", "i", "x", "_">>, <<"p", "r", "e", "f", "i", "x", " ">>}

Suffixes == {<<>>, <<"_", "s", "u", "f", "f", "i", "x">>, <<" ", "s", "u", "f", "f", "i", "x">>}

RECURSIVE Concat(_)
Concat(ps) == IF ps = <<>> THEN <<>> ELSE Head(ps) \o Concat(Tail(ps))

Contents ==
    {pre \o Concat(ps) \o post :
        pre \in Prefixes, post \in Suffixes,
        ps \in UNION {[1..n -> Pieces] : n \in 0..MaxPieces}}

RInit ==
    /\ MInit
    /\ SIdle
    /\ FIdle
    /\ YIdle
    /\ content \in Contents
    /\ resolved = <<>>

\* resolve_content(content) is called and returns or raises
Resolve ==
    /\ resolved = <<>>
    /\ resolved' = ResolveContent(StrV(content), <<>>)
    /\ UNCHANGED <<mvars, svars, content, fvars, yvars>>

NextR == Resolve

SpecR == RInit /\ [][NextR]_vars

---------------------------------------------------------------------------
(* FilterBuilder, CriteriaBuilder and KamaFilter.  A statement of a query   *)
(* is a criterion or a logic operand.                                      *)

\* the longest list of statements a builder is driven to
MaxCriteria == 3

\* FilterCriterion(field, operand, value): op is the operand's symbol
Criterion(f, op, v) == [kind |-> "criterion", field |-> f, op |-> op, value |-> v]

\* LogicOperand.AND, LogicOperand.OR
Logic(symbol) == [kind |-> "logic", symbol |-> symbol]

\* FilterOperand.requires_list
RequiresList(op) == op = "IN"

\* the characters of an operand's symbol
Symbol(op) == IF op = "IN" THEN <<"I", "N">> ELSE <<op>>

\* sep.join(parts), for parts that are all strings
RECURSIVE Join(_, _)
Join(parts, sep) ==
    IF parts = <<>> THEN <<>>
    ELSE IF Len(parts) = 1 THEN Head(parts)
    ELSE Head(parts) \o sep \o Join(Tail(parts), sep)

\* the loop of FilterCriterion.to_sql: a str value is quoted, any other
\* value is kept as it is
Formatted(values) ==
    [i \in DOMAIN values |->
        IF values[i].t = "str" THEN StrV(<<"'">> \o values[i].v \o <<"'">>)
        ELSE values[i]]

\* FilterCriterion.to_sql: ", ".join raises TypeError on an item that is no str
CriterionSql(c) ==
    LET values == IF RequiresList(c.op) THEN c.value ELSE <<c.value>>
        fs == Formatted(values)
        joined == Join([i \in DOMAIN fs |-> fs[i].v], <<",", " ">>)
    IN  IF \E i \in DOMAIN fs : fs[i].t # "str" THEN Raised("TypeError")
        ELSE StrV(c.field \o <<" ">> \o Symbol(c.op) \o <<" ">>
                    \o (IF RequiresList(c.op) THEN <<"(">> \o joined \o <<")">> ELSE joined))

\* KamaFilter.to_sql
FilterSql(q) ==
    LET parts == [i \in DOMAIN q |->
                    IF q[i].kind = "logic" THEN StrV(q[i].symbol) ELSE CriterionSql(q[i])]
    IN  IF \E i \in DOMAIN parts : parts[i].t = "raise"
        THEN parts[CHOOSE i \in DOMAIN parts :
                    parts[i].t = "raise" /\ \A j \in 1..(i - 1) : parts[j].t # "raise"]
        ELSE StrV(Join([i \in DOMAIN parts |-> parts[i].v], <<" ">>))

\* KamaFilter.get
FilterGet(q, f) ==
    LET I == {i \in DOMAIN q : q[i].kind = "criterion" /\ q[i].field = f}
    IN  IF I = {} THEN NoneV ELSE q[CHOOSE i \in I : \A j \in I : i <= j].value

\* the fields and values the builder is driven with
FieldX == <<"x">>

Fields == {StrV(FieldX), StrV(<<"y">>), NoneV}

Values == {IntV(5), StrV(<<"a">>), NoneV}

Lists ==
    {<<IntV(1), IntV(2), IntV(3)>>, <<StrV(<<"a">>), StrV(<<"b">>)>>,
     <<StrV(<<"a">>), IntV(1)>>, <<>>}

\* an object of a class, as a value
Object(class) == [t |-> "object", v |-> class]

\* CriteriaBuilder.__init__, at the end of call op
NewCriteriaBuilder(op, f) ==
    IF f = NoneV
    THEN /\ answer' = [op |-> op, arg |-> f, val |-> Raised("ValueError")]
         /\ pending' = <<>>
    ELSE /\ answer' = [op |-> op, arg |-> f, val |-> Object("CriteriaBuilder")]
         /\ pending' = f.v

\* FilterBuilder.where
Where(f) ==
    /\ pending = <<>>
    /\ NewCriteriaBuilder("where", f)
    /\ UNCHANGED <<mvars, svars, rvars, yvars, criteria, kfilter>>

\* FilterBuilder.also and FilterBuilder.either
AlsoEither(symbol, f) ==
    /\ pending = <<>>
    /\ Len(criteria) + 2 <= MaxCriteria
    /\ criteria' = Append(criteria, Logic(symbol))
    /\ NewCriteriaBuilder(IF symbol = <<"O", "R">> THEN "either" ELSE "also", f)
    /\ UNCHANGED <<mvars, svars, rvars, yvars, kfilter>>

\* CriteriaBuilder.add_criterion, reached through equals and among
AddCriterion(op, v) ==
    /\ pending # <<>>
    /\ Len(criteria) < MaxCriteria
    /\ criteria' = Append(criteria, Criterion(pending, op, v))
    /\ pending' = <<>>
    /\ answer' = [op |-> IF RequiresList(op) THEN "among" ELSE "equals",
                  arg |-> NoneV, val |-> Object("FilterBuilder")]
    /\ UNCHANGED <<mvars, svars, rvars, yvars, kfilter>>

\* FilterBuilder.build: a KamaFilter over the builder's own list
BuildResult(q) == Object("KamaFilter")

BuildFilter ==
    /\ pending = <<>>
    /\ answer' = [op |-> "build", arg |-> NoneV, val |-> BuildResult(criteria)]
    /\ kfilter' = TRUE
    /\ UNCHANGED <<mvars, svars, rvars, yvars, criteria, pending>>

\* KamaFilter.get on the built filter
Get(f) ==
    /\ kfilter
    /\ pending = <<>>
    /\ answer' = [op |-> "get", arg |-> f, val |-> FilterGet(criteria, f.v)]
    /\ UNCHANGED <<mvars, svars, rvars, yvars, criteria, pending, kfilter>>

\* KamaFilter.to_sql on the built filter
ToSql ==
    /\ kfilter
    /\ pending = <<>>
    /\ answer' = [op |-> "to_sql", arg |-> NoneV, val |-> FilterSql(criteria)]
    /\ UNCHANGED <<mvars, svars, rvars, yvars, criteria, pending, kfilter>>

NextF ==
    \/ \E f \in Fields : Where(f)
    \/ \E f \in Fields, symbol \in {<<"A", "N", "D">>, <<"O", "R">>} : AlsoEither(symbol, f)
    \/ \E v \in Values : AddCriterion("=", v)
    \/ \E vs \in Lists : AddCriterion("IN", vs)
    \/ BuildFilter
    \/ \E f \in Fields \ {NoneV} : Get(f)
    \/ ToSql

SpecF == Init /\ [][NextF]_vars

---------------------------------------------------------------------------
(* StyleBuilder.__parse_qss applied to stylesheets.  A stylesheet is a     *)
(* sequence of characters; the scanner of __read_blocks keeps the indices  *)
(* of the code, which count from 0.                                        *)

ListV(l) == [t |-> "list", v |-> l]

\* where Python puts a slice bound i in a string s: a negative index counts
\* from the end, and an index out of range is clipped
Clip(s, i) ==
    IF i < 0 THEN (IF i + Len(s) < 0 THEN 0 ELSE i + Len(s))
    ELSE IF i > Len(s) THEN Len(s) ELSE i

\* s[a:b]
Slice(s, a, b) ==
    IF Clip(s, a) >= Clip(s, b) THEN <<>>
    ELSE SubSeq(s, Clip(s, a) + 1, Clip(s, b))

\* the locals of __read_blocks before its loop
ScanInit ==
    [blocks |-> <<>>, properties |-> <<>>, depth |-> 0,
     selector_start |-> 0, content_start |-> -1,
     property_key_start |-> -1, property_key_end |-> -1,
     property_value_start |-> -1, property_found |-> FALSE]

\* "if depth == 1": the first ":" of a property ends its key, a ";" ends it
ScanProperty(q, s, i, char) ==
    IF q.depth # 1 THEN q
    ELSE IF char = ":" /\ ~q.property_found
         THEN [q EXCEPT !.property_key_end = i,
                        !.property_value_start = i + 1,
                        !.property_found = TRUE]
    ELSE IF char = ";"
         THEN [q EXCEPT
                 !.properties =
                     Append(@, <<Strip(Slice(s, q.property_key_start,
                                                q.property_key_end)),
                                 Strip(Slice(s, q.property_value_start, i))>>),
                 !.property_key_start = i + 1,
                 !.property_found = FALSE]
    ELSE q

\* "if depth == 0 and char == ';'"
ScanSelector(q, i, char) ==
    IF q.depth = 0 /\ char = ";" THEN [q EXCEPT !.selector_start = i + 1]
    ELSE q

\* what __read_blocks appends for a block that closes at i: its selector,
\* its content and the properties seen since the last block (the text of
\* the whole block, which __parse_qss ignores, is left out)
ClosedBlock(q, s, i) ==
    [selector |-> Strip(Slice(s, q.selector_start, q.content_start)),
     content |-> Strip(Slice(s, q.content_start + 1, i)),
     props |-> q.properties]

\* "if char == '{'" and "elif char == '}'"
ScanBrace(q, s, i, char) ==
    IF char = "{"
    THEN LET q1 == IF q.depth = 0
                   THEN [q EXCEPT !.content_start = i,
                                  !.property_key_start = i + 1]
                   ELSE q
         IN  [q1 EXCEPT !.depth = @ + 1, !.property_found = FALSE]
    ELSE IF char = "}"
    THEN IF q.depth - 1 = 0
         THEN [q EXCEPT !.depth = 0,
                        !.blocks = Append(@, ClosedBlock(q, s, i)),
                        !.properties = <<>>,
                        !.selector_start = i + 1]
         ELSE [q EXCEPT !.depth = @ - 1]
    ELSE q

\* one iteration of the loop over enumerate(stylesheet)
ScanChar(q, s, i) ==
    ScanBrace(ScanSelector(ScanProperty(q, s, i, s[i + 1]), i, s[i + 1]),
              s, i, s[i + 1])

\* the iterations for the indices lo .. hi - 1, in order.  The range is
\* halved, and the first disjunct (never true: depth falls by at most one
\* per character) has q evaluated before the range is entered, to keep the
\* evaluation shallow.
RECURSIVE Scan(_, _, _, _)
Scan(q, s, lo, hi) ==
    IF q.depth < 0 - Len(s) \/ lo >= hi THEN q
    ELSE IF hi = lo + 1 THEN ScanChar(q, s, lo)
    ELSE Scan(Scan(q, s, lo, (lo + hi) \div 2), s, (lo + hi) \div 2, hi)

ReadBlocks(s) == Scan(ScanInit, s, 0, Len(s)).blocks

\* the characters [a-zA-Z0-9_-] does not match, among those of the model
NonClass == {" ", "{", "}", ";", ":", "&", "."}

\* the length of the run of class-name characters from position i of s on
RECURSIVE ClassRun(_, _)
ClassRun(s, i) ==
    IF i > Len(s) \/ s[i] \in NonClass THEN 0 ELSE 1 + ClassRun(s, i + 1)

\* re.sub(r"\.([a-zA-Z0-9_-]+)", r"[cls-\1='true']", s)
RECURSIVE ClassSub(_)
ClassSub(s) ==
    IF s = <<>> THEN s
    ELSE IF Head(s) = "." /\ ClassRun(s, 2) > 0
         THEN <<"[", "c", "l", "s", "-">> \o SubSeq(s, 2, 1 + ClassRun(s, 2))
              \o <<"=", "'", "t", "r", "u", "e", "'", "]">>
              \o ClassSub(SubSeq(s, 2 + ClassRun(s, 2), Len(s)))
         ELSE <<Head(s)>> \o ClassSub(Tail(s))

\* StyleBlock.__init__
StyleBlock(selector, properties) ==
    [selector |-> ClassSub(Strip(selector)), properties |-> properties]

\* a substitution that leaves the "&" of a nested selector in place
KeepAmpersand(selector, parent_selector) == selector

\* selector.replace("&", parent_selector)
Substitute(selector, parent_selector) ==
    Replace(selector, <<"&">>, parent_selector)

RECURSIVE ParseQss(_, _)
RECURSIVE ParseEach(_, _)
\* the loop of __parse_qss over the blocks __read_blocks returned
ParseEach(bs, parent_selector) ==
    IF bs = <<>> THEN <<>>
    ELSE LET selector == Substitute(Head(bs).selector, parent_selector)
         IN  <<StyleBlock(selector, Head(bs).props)>>
             \o ParseQss(Head(bs).content, selector)
             \o ParseEach(Tail(bs), parent_selector)

ParseQss(s, parent_selector) == ParseEach(ReadBlocks(s), parent_selector)

\* the most parts a stylesheet is put together from
MaxParts == 6

Color == <<"c", "o", "l", "o", "r">>

Red == <<"r", "e", "d">>

Blue == <<"b", "l", "u", "e">>

Parts ==
    {<<".", "a", " ", "{">>,
     <<" ", "&", " ", ".", "b", " ", "{">>,
     <<" ", "c", "o", "l", "o", "r", ":", " ", "r", "e", "d", ";">>,
     <<" ", "c", "o", "l", "o", "r", ":", " ", "b", "l", "u", "e", ";">>,
     <<" ", "}">>}

Stylesheets ==
    {Concat(ps) : ps \in UNION {[1..n -> Parts] : n \in 0..MaxParts}}

YInit ==
    /\ MInit
    /\ SIdle
    /\ RIdle
    /\ FIdle
    /\ stylesheet \in Stylesheets
    /\ blocks = <<>>

\* __parse_qss(stylesheet) is called and returns
ParseStylesheet ==
    /\ blocks = <<>>
    /\ blocks' = ListV(ParseQss(stylesheet, <<>>))
    /\ UNCHANGED <<mvars, svars, rvars, fvars, stylesheet>>

NextY == ParseStylesheet

SpecY == YInit /\ [][NextY]_vars

---------------------------------------------------------------------------
(* Properties.  A property of a command is stated over every input the     *)
(* command may get in the current state: the command is applied to the     *)
(* current state and its result is inspected before it is committed.       *)

\* was widget x put into a layout by __add_widgets
Added(R, x) == QParent(R.kids, x) # -1 /\ WName(R, x) \in RegNames(R.reg)

\* was widget x left out by __add_widgets
Skipped(R, x) == QParent(R.kids, x) = -1 /\ ~IsRegistered(R, x)

\* the widget lists the hook `target` was called with, in call order
HookArgs(R, target) ==
    LET cs == SelectSeq(R.calls, LAMBDA c : c.target = target)
    IN  [i \in DOMAIN cs |-> cs[i].ws]

\* C1: when a Delete removes a registered widget P from the registry, the
\* name of every widget that was below P in the widget tree is absent from
\* the registry afterwards, so get_widget finds none of them.
C1_CascadingDelete ==
    \A f \in Filters, rev \in BOOLEAN :
        \A R \in {DeleteCmd(Machine(rev), f)} :
            \A i \in DOMAIN widgets :
                widgets[i].name \notin RegNames(R.reg) =>
                    \A x \in SeqToSet(FindChildren(kids, widgets[i].w)) :
                        GetWidget(R.reg, meta[obj[x].meta].sec,
                                  meta[obj[x].meta].id) = NoRef

\* a Delete by name removes a widget whose registered child has a registered
\* child of its own
C1_Witness ==
    \E f \in Filters \ {AllFilter} :
        \E R \in {DeleteCmd(Machine(FALSE), f)} :
            \E i \in DOMAIN widgets :
                /\ widgets[i].name \in f.val
                /\ widgets[i].name \notin RegNames(R.reg)
                /\ \E x \in SeqToSet(kids[widgets[i].w]) :
                     \E y \in SeqToSet(kids[x]) :
                        /\ IsRegistered(Machine(FALSE), x)
                        /\ IsRegistered(Machine(FALSE), y)
                        /\ ~IsRegistered(R, y)

\* C2: of the widgets one Build puts into the same layout, one with a
\* smaller order_id stands before one with a larger order_id, whatever the
\* order of the metadata list.
C2_OrderInvariant ==
    \A ms \in Batches :
        \A R \in {BuildCmd(Machine(FALSE), ms)} :
            \A p \in DOMAIN R.kids :
                \A i, j \in DOMAIN R.kids[p] :
                    ( /\ R.kids[p][i] \notin DOMAIN obj
                      /\ R.kids[p][j] \notin DOMAIN obj
                      /\ Ord(R, R.kids[p][i]) < Ord(R, R.kids[p][j]) ) => i < j

\* a Build whose list names the sibling with the larger order_id first puts
\* both into one layout
C2_Witness ==
    \E ms \in Batches :
        \E R \in {BuildCmd(Machine(FALSE), ms)} :
            /\ Len(ms) = 2
            /\ meta[ms[1]].ord > meta[ms[2]].ord
            /\ \E p \in DOMAIN R.kids :
                 {NewWidgets(Machine(FALSE), ms)[1],
                  NewWidgets(Machine(FALSE), ms)[2]} \subseteq SeqToSet(R.kids[p])

Shape(P) ==
    [names |-> RegNames(P.reg),
     held |-> {<<P.reg[i].name, P.reg[i].w>> : i \in DOMAIN P.reg},
     name |-> [o \in DOMAIN P.obj |-> WName(P, o)],
     kids |-> P.kids]

\* C5 as stated: Build(M), Delete(the names of M), Build(M) ends with the
\* registry names, parents and child orders the first Build(M) ended with.
C5_IdempotentBuild ==
    \A ms \in Batches, rev \in BOOLEAN :
        \A P1 \in {Settle(BuildCmd(Machine(FALSE), ms))} :
            \A P2 \in {Settle(DeleteCmd(Resume(P1, rev),
                         NamesFilter({Name(meta, ms[i]) : i \in DOMAIN ms})))} :
                Shape(Settle(BuildCmd(Resume(P2, FALSE), ms))) = Shape(P1)

C7_SetupOnlyForAdded ==
    \A ms \in Batches :
        \A R \in {BuildCmd(Machine(FALSE), ms)}, ws \in {NewWidgets(Machine(FALSE), ms)} :
            \A i \in DOMAIN ms :
                meta[ms[i]].ctl \in Controllers =>
                    Cardinality({k \in DOMAIN HookArgs(R, "setup") :
                                    HookArgs(R, "setup")[k] = <<ws[i]>>})
                        = IF Added(R, ws[i]) THEN 1 ELSE 0

\* the calls of reset_state made for widget w, in call order
Resets(R, w) ==
    SelectSeq(R.calls, LAMBDA c : c.target = "reset_state" /\ c.ws = <<w>>)

\* C11: after a Delete no registered widget has metadata the filter accepts,
\* and for every matched widget with a registered controller reset_state
\* was called on that controller while the registry still held the widget,
\* leaving the controller's state empty.
C11_DeleteContract ==
    \A f \in Filters, rev \in BOOLEAN :
        \A R \in {DeleteCmd(Machine(rev), f)} :
            /\ ~R.raised
            /\ \A i \in DOMAIN R.reg : ~Matches(R, f, MetaOf(R, R.reg[i].w))
            /\ \A w \in SeqToSet(Applicable(Machine(rev), f)) :
                 meta[obj[w].meta].ctl \in Controllers =>
                    /\ Len(Resets(R, w)) = 1
                    /\ Resets(R, w)[1].ctl = meta[obj[w].meta].ctl
                    /\ Resets(R, w)[1].live
                    /\ R.state[meta[obj[w].meta].ctl] = {}

\* a Delete by name matches a widget whose controller holds state, and
\* removes it
C11_Witness ==
    \E f \in Filters \ {AllFilter} :
        \E R \in {DeleteCmd(Machine(FALSE), f)} :
            \E w \in SeqToSet(Applicable(Machine(FALSE), f)) :
                /\ meta[obj[w].meta].ctl \in Controllers
                /\ WName(Machine(FALSE), w) \in cstate[meta[obj[w].meta].ctl]
                /\ Len(widgets) >= 2
                /\ ~IsRegistered(R, w)
                /\ R.state[meta[obj[w].meta].ctl] = {}

\* the lifecycle hooks
Targets == {"setup", "refresh", "enable", "disable"}

\* how many times hook target was called with widget w
HookCount(R, target, w) ==
    Cardinality({k \in DOMAIN HookArgs(R, target) : HookArgs(R, target)[k] = <<w>>})

\* C13: invoking a hook for a list of widgets raises nothing, calls the hook
\* once for every widget of the list that has a registered controller and
\* not at all for one whose controller is unregistered or absent; and a
\* Delete that matches such a widget removes its name from the registry,
\* and the widget is gone once the event loop has run.
C13_MissingController ==
    \A f \in Filters :
        \A ws \in {Applicable(Machine(FALSE), f)} :
            /\ \A target \in Targets :
                 \A R \in {InvokeControllers(Machine(FALSE), target, ws)} :
                    /\ ~R.raised
                    /\ \A w \in SeqToSet(ws) :
                         HookCount(R, target, w)
                            = IF meta[obj[w].meta].ctl \in Controllers THEN 1 ELSE 0
            /\ \A rev \in BOOLEAN :
                 \A D \in {DeleteCmd(Machine(rev), f)} :
                    \A w \in SeqToSet(ws) :
                        meta[obj[w].meta].ctl \notin Controllers =>
                            /\ ~D.raised
                            /\ WName(D, w) \notin RegNames(D.reg)
                            /\ w \notin DOMAIN Purge(D).obj
                            /\ Resets(D, w) = <<>>

\* the registry lists a widget with an unregistered controller before one
\* with a registered controller: the hook still reaches the second, and a
\* Delete by name removes the first
C13_Witness ==
    \E i, j \in DOMAIN widgets :
        /\ i < j
        /\ meta[obj[widgets[i].w].meta].ctl = "X"
        /\ meta[obj[widgets[j].w].meta].ctl \in Controllers
        /\ HookCount(InvokeControllers(Machine(FALSE), "disable",
                                       Applicable(Machine(FALSE), AllFilter)),
                     "disable", widgets[j].w) = 1
        /\ widgets[i].w \in DeleteCmd(Machine(FALSE), NameFilter(widgets[i].name)).dead

\* C26 as stated: every registered widget whose metadata names a parent
\* has a widget registered under the name of that parent.
C26_ParentClosure ==
    \A i \in DOMAIN widgets :
        ParentWidgetId(meta, obj[widgets[i].w].meta) # None =>
            ParentWidgetName(meta, obj[widgets[i].w].meta) \in RegNames(widgets)

\* C27 as stated: a Delete leaves in place every controller state entry
\* stored under the name of a widget that stays registered.
C27_StateFrame ==
    \A f \in Filters, rev \in BOOLEAN :
        \A D \in {DeleteCmd(Machine(rev), f)} :
            \A c \in Controllers :
                \A n \in cstate[c] : n \in RegNames(D.reg) => n \in D.state[c]

---------------------------------------------------------------------------
(* Properties of event_refresh, under SpecE. *)

\* the registered widgets whose refresh_events hold event, in registry order
EventMatched(event) ==
    SelectSeq(RegValues(widgets),
              LAMBDA w : event \in RefreshEvents(meta[obj[w].meta]))

\* what event_refresh is to refresh on account of the matched widget w
EventScope(w, event) ==
    IF event \in TagRecursiveEvents(meta[obj[w].meta].oid)
    THEN <<w>> \o FindChildren(kids, w)
    ELSE <<w>>

\* the matched widgets that have a registered controller
EventControlled(event) ==
    SelectSeq(EventMatched(event),
              LAMBDA w : meta[obj[w].meta].ctl \in Controllers)

\* C21: event_refresh(e) refreshes the registered widgets whose
\* refresh_events hold e, each once and no other on its own account; with
\* a matched widget its descendants are refreshed exactly when its metadata
\* marks e as recursive; and the refresh hook is called for matched widgets
\* only, once for each that has a controller.
C21_EventRefresh ==
    \A e \in Events :
        \A R \in {EventRefreshCmd(Machine(FALSE), e)} :
            /\ ~R.raised
            /\ HookArgs(R, "widget.refresh")
                    = [i \in DOMAIN EventMatched(e) |->
                            EventScope(EventMatched(e)[i], e)]
            /\ HookArgs(R, "refresh")
                    = [i \in DOMAIN EventControlled(e) |->
                            <<EventControlled(e)[i]>>]

\* a registered widget with a child matches one event as recursive and
\* another as plain, beside a registered widget the plain event leaves out:
\* the first refresh reaches the child, the second does not
C21_Witness ==
    \E i, j \in DOMAIN widgets, e, r \in Events :
        /\ FindChildren(kids, widgets[i].w) # <<>>
        /\ r \in TagRecursiveEvents(meta[obj[widgets[i].w].meta].oid)
        /\ e \in TagEvents(meta[obj[widgets[i].w].meta].oid)
        /\ e \notin RefreshEvents(meta[obj[widgets[j].w].meta])
        /\ \E n \in DOMAIN HookArgs(EventRefreshCmd(Machine(FALSE), r), "widget.refresh") :
                HookArgs(EventRefreshCmd(Machine(FALSE), r), "widget.refresh")[n]
                    = <<widgets[i].w>> \o FindChildren(kids, widgets[i].w)
        /\ \E n \in DOMAIN HookArgs(EventRefreshCmd(Machine(FALSE), e), "widget.refresh") :
                HookArgs(EventRefreshCmd(Machine(FALSE), e), "widget.refresh")[n]
                    = <<widgets[i].w>>
        /\ HookArgs(EventRefreshCmd(Machine(FALSE), e), "refresh") # <<>>

---------------------------------------------------------------------------
(* Properties of the registry under every command, under SpecG. *)

\* C24: Enable, Disable, Refresh, AddWidgetType and AddLayoutType leave the
\* registry of widgets as it was, entry for entry; a Build removes no name
\* from it and a Delete adds none.
C24_RegistryFrame ==
    /\ \A f \in Filters :
            /\ EnableCmd(Machine(FALSE), f).reg = widgets
            /\ DisableCmd(Machine(FALSE), f).reg = widgets
            /\ RefreshCmd(Machine(FALSE), f).reg = widgets
    /\ \A ts \in TypeLists(WidgetClasses) :
            AddWidgetTypeCmd(Machine(FALSE), ts).reg = widgets
    /\ \A ts \in TypeLists(LayoutClasses) :
            AddLayoutTypeCmd(Machine(FALSE), ts).reg = widgets
    /\ \A ms \in Batches :
            RegNames(widgets) \subseteq RegNames(BuildCmd(Machine(FALSE), ms).reg)
    /\ \A f \in Filters, rev \in BOOLEAN :
            RegNames(DeleteCmd(Machine(rev), f).reg) \subseteq RegNames(widgets)

\* widgets are registered, a class is registered under the name its own
\* name is turned into, an Enable calls a hook and a type command registers
\* a name the type dict does not hold yet
C24_Witness ==
    /\ Len(widgets) >= 2
    /\ \E n \in DOMAIN widget_types : widget_types[n] # n
    /\ EnableCmd(Machine(FALSE), AllFilter).calls # <<>>
    /\ \E ts \in TypeLists(LayoutClasses) :
            DOMAIN AddLayoutTypeCmd(Machine(FALSE), ts).ltypes # DOMAIN layout_types

---------------------------------------------------------------------------
(* Properties of RebindParentController.setup, under SpecB. *)

\* the three cases: no 'parent' value, a target the registry does not hold,
\* a target without a layout
TargetMissing(S, p) == Len(p) = 2 /\ RebindTarget(S, p) = NoRef

TargetBare(S, p) ==
    /\ RebindTarget(S, p) # NoRef
    /\ ~HasLayout(S, RebindTarget(S, p))

\* C18: setup raises, and the widget stays in the layout it was in (the
\* widget tree is as before), when the 'parent' argument is missing, when
\* the registry holds no widget under the name it gives, and when the widget
\* it names has no layout.
C18_RebindErrors ==
    \A i \in DOMAIN widgets, p \in ParentArgs :
        \A R \in {RebindSetup(Machine(FALSE), widgets[i].w, p)} :
            (Absent(p) \/ TargetMissing(Machine(FALSE), p)
                      \/ TargetBare(Machine(FALSE), p)) =>
                /\ R.raised
                /\ R.kids = kids
                /\ QParent(R.kids, widgets[i].w) = QParent(kids, widgets[i].w)

\* a widget that lies in the layout of another widget, after a sibling
\* built before it, is rebound with each of the three faulty arguments: no
\* value, the name of a widget that was never built, and the name of a
\* registered widget without a layout
C18_Witness ==
    \E i \in DOMAIN widgets :
        /\ QParent(kids, widgets[i].w) \notin {-1, WRoot}
        /\ Len(kids[QParent(kids, widgets[i].w)]) > 1
        /\ kids[QParent(kids, widgets[i].w)][1] # widgets[i].w
        /\ RebindSetup(Machine(FALSE), widgets[i].w, <<>>).raised
        /\ \E p, q \in ParentArgs :
              /\ TargetMissing(Machine(FALSE), p)
              /\ TargetBare(Machine(FALSE), q)
              /\ RebindTarget(Machine(FALSE), q) # widgets[i].w
              /\ RebindSetup(Machine(FALSE), widgets[i].w, p).raised
              /\ RebindSetup(Machine(FALSE), widgets[i].w, q).raised

---------------------------------------------------------------------------
(* Properties of the template controller, under SpecT. *)

\* the registered widgets bound to the template controller
Hosts == {w \in DOMAIN obj : meta[obj[w].meta].ctl = "T" /\ IsRegistered(Machine(FALSE), w)}

\* the widgets of section sec in R that did not exist before the command
NewIn(R, sec) == {x \in DOMAIN R.obj \ DOMAIN obj : R.meta[R.obj[x].meta].sec = sec}

\* C3: a template refresh over N rows and K body root segments leaves N*K
\* body root widgets registered, the root of row i under the id
\* original_id__i, and no two body widgets it built share a name.
C3_TemplateRowIdentity ==
    \A w \in Hosts :
        \A R \in {TemplateRefresh(Machine(FALSE), w)}, segs \in {BodySegments(Machine(FALSE), w)} :
            /\ ~R.raised
            /\ Cardinality({i \in DOMAIN R.reg :
                    /\ R.meta[R.obj[R.reg[i].w].meta].sec = BodySection
                    /\ \E s \in DOMAIN segs :
                         R.meta[R.obj[R.reg[i].w].meta].oid = meta[segs[s].root].oid})
                 = data * Len(segs)
            /\ \A idx \in 0..(data - 1), s \in DOMAIN segs :
                 \E x \in NewIn(R, BodySection) :
                    /\ GetWidget(R.reg, BodySection,
                                 meta[segs[s].root].oid \o "__" \o ToString(idx)) = x
                    /\ R.meta[R.obj[x].meta].oid = meta[segs[s].root].oid
            /\ \A x, y \in NewIn(R, BodySection) : x # y => WName(R, x) # WName(R, y)

\* a refresh over two rows has run: both rows of both body segments are registered
C3_Witness ==
    /\ data = 2
    /\ Hosts # {}
    /\ \A id \in {"r1__0", "r2__0", "r1__1", "r2__1", "k__0", "k__1"} :
            GetWidget(widgets, BodySection, id) # NoRef
    /\ C3_TemplateRowIdentity

\* the metadata the provider holds under original id oid
Original(oid) == Catalog[CHOOSE c \in CatIds : Catalog[c].id = oid]

\* C22: after a template refresh every body widget of row i is in a layout:
\* the clone of a segment root in that of the template widget, the clone of
\* any other node in that of the widget built in the same refresh whose id
\* is the original id of its parent followed by __i.
C22_TemplateParents ==
    \A w \in Hosts :
        \A R \in {TemplateRefresh(Machine(FALSE), w)} :
            \A x \in NewIn(R, BodySection) :
                \E idx \in 0..(data - 1) :
                    /\ R.meta[R.obj[x].meta].id = Suffix(R.meta[R.obj[x].meta].oid, idx)
                    /\ IF Original(R.meta[R.obj[x].meta].oid).pwid = None
                       THEN QParent(R.kids, x) = w
                       ELSE \E p \in NewIn(R, BodySection) :
                              /\ QParent(R.kids, x) = p
                              /\ IsRegistered(R, p)
                              /\ R.meta[R.obj[p].meta].id
                                    = Suffix(Original(R.meta[R.obj[x].meta].oid).pwid, idx)

\* a refresh over two rows has run: the child k of segment r1 lies in the
\* layout of r1__0 in row 0 and of r1__1 in row 1, and both clones of r1 in
\* that of the host
C22_Witness ==
    /\ data = 2
    /\ \E w \in Hosts :
         \A idx \in {0, 1} :
            /\ GetWidget(widgets, BodySection, Suffix("k", idx)) # NoRef
            /\ QParent(kids, GetWidget(widgets, BodySection, Suffix("k", idx)))
                    = GetWidget(widgets, BodySection, Suffix("r1", idx))
            /\ QParent(kids, GetWidget(widgets, BodySection, Suffix("r1", idx))) = w
    /\ \E w \in Hosts : NewIn(TemplateRefresh(Machine(FALSE), w), BodySection) # {}

\* the three template sections of the host
HostSections == {TemplateSection(Catalog[m].id, a) : m \in HostIds, a \in {"header", "body", "footer"}}

\* the entries of registry reg that belong to the template, in registry order
TemplateEntries(R) ==
    SelectSeq(R.reg, LAMBDA e : R.meta[R.obj[e.w].meta].sec \in HostSections)

\* the ids one row of the body is built with, in build order
RowIds(idx) == <<Suffix("r1", idx), Suffix("k", idx), Suffix("r2", idx)>>

RECURSIVE RowsIds(_, _)
RowsIds(idx, n) == IF idx >= n THEN <<>> ELSE RowIds(idx) \o RowsIds(idx + 1, n)

\* C23: a template refresh removes every registered header, body and
\* footer widget of the template, and then builds new widgets in this
\* order: the header once, the body segments once for each data element in
\* dataset order, the footer once.  Over an empty dataset the template is
\* left with its header and footer widgets only.
C23_TemplateOrder ==
    \A w \in Hosts :
        \A R \in {TemplateRefresh(Machine(FALSE), w)} :
            \A es \in {TemplateEntries(R)} :
                /\ \A x \in DOMAIN obj :
                        (meta[obj[x].meta].sec \in HostSections
                            /\ IsRegistered(Machine(FALSE), x))
                        => (x \in R.dead /\ ~IsRegistered(R, x))
                /\ [i \in DOMAIN es |-> R.meta[R.obj[es[i].w].meta].id]
                        = <<"hd">> \o RowsIds(0, data) \o <<"ft">>
                /\ \A i \in DOMAIN es : es[i].w \notin DOMAIN obj
                /\ \A i, j \in DOMAIN es : i < j => es[i].w < es[j].w
                /\ Cardinality({x \in DOMAIN R.obj \ DOMAIN obj :
                        R.meta[R.obj[x].meta].sec \in HostSections}) = Len(es)
                /\ data = 0 =>
                        {R.meta[R.obj[es[i].w].meta].sec : i \in DOMAIN es}
                            = {TemplateSection("h", "header"), TemplateSection("h", "footer")}

\* the template holds the header, the two rows and the footer of an earlier
\* refresh and the dataset is now empty: a refresh removes each of them and
\* builds a header and a footer
C23_Witness ==
    /\ Hosts # {}
    /\ TemplateEntries(Machine(FALSE)) # <<>>
    /\ Len(TemplateEntries(Machine(FALSE))) = 2 + 3 * 2
    /\ data = 0
    /\ \E w \in Hosts :
            /\ Len(TemplateEntries(TemplateRefresh(Machine(FALSE), w))) = 2
            /\ \A i \in DOMAIN TemplateEntries(Machine(FALSE)) :
                    TemplateEntries(Machine(FALSE))[i].w
                        \in TemplateRefresh(Machine(FALSE), w).dead

\* every lifecycle hook of command result R was called with a widget the
\* registry held at that moment
HooksLive(R) ==
    \A i \in DOMAIN R.calls : R.calls[i].target \in Targets => R.calls[i].live

\* C25 as stated: no command calls a lifecycle hook with a widget that is
\* absent from the registry at the moment of the call.
C25_NoHookOnDead ==
    /\ \A ms \in TBatches : HooksLive(BuildCmd(Machine(FALSE), ms))
    /\ \A f \in TFilters, rev \in BOOLEAN :
            /\ HooksLive(DeleteCmd(Machine(rev), f))
            /\ HooksLive(EnableCmd(Machine(rev), f))
            /\ HooksLive(DisableCmd(Machine(rev), f))
            /\ HooksLive(RefreshCmd(Machine(rev), f))

\* the metadata the provider holds for the template sections
TemplateMeta == {m \in CatIds : Catalog[m].sec \in HostSections}

\* C30: a template refresh leaves the id and the order_id of the metadata
\* the provider holds for the template as they were, and a second refresh
\* over the same dataset leaves the registry with the names the first left,
\* each held by a widget the second refresh built.
C30_RefreshIdempotent ==
    \A w \in Hosts :
        \A R1 \in {TemplateRefresh(Machine(FALSE), w)} :
            \A R2 \in {TemplateRefresh(R1, w)} :
                /\ ~R1.raised /\ ~R2.raised
                /\ \A m \in TemplateMeta :
                        /\ R1.meta[m].id = Catalog[m].id
                        /\ R1.meta[m].ord = Catalog[m].ord
                        /\ R2.meta[m].id = Catalog[m].id
                        /\ R2.meta[m].ord = Catalog[m].ord
                /\ RegNames(R2.reg) = RegNames(R1.reg)
                /\ [i \in DOMAIN R2.reg |-> R2.reg[i].name]
                        = [i \in DOMAIN R1.reg |-> R1.reg[i].name]
                /\ \A i \in DOMAIN TemplateEntries(R1) :
                        ~IsRegistered(R2, TemplateEntries(R1)[i].w)
                /\ Len(TemplateEntries(R2)) = Len(TemplateEntries(R1))

\* a host is registered over a dataset of two rows: the first refresh
\* builds both rows and the second builds them again under the same names
C30_Witness ==
    /\ data = MaxRows
    /\ \E w \in Hosts :
            /\ Len(TemplateEntries(TemplateRefresh(Machine(FALSE), w))) = 2 + 3 * data
            /\ GetWidget(TemplateRefresh(TemplateRefresh(Machine(FALSE), w), w).reg,
                         BodySection, Suffix("k", 1))
                    \notin {NoRef,
                            GetWidget(TemplateRefresh(Machine(FALSE), w).reg,
                                      BodySection, Suffix("k", 1))}

\* the registered widgets that have a registered controller, in registry order
Controlled == SelectSeq(RegValues(widgets), LAMBDA w : meta[obj[w].meta].ctl \in Controllers)

\* C12: a command given no filter takes every widget of the registry:
\* delete() leaves the registry empty, disable() and enable() set the flag
\* of every registered widget and call the hook for each that has a
\* controller, refresh() refreshes every registered widget and calls the
\* refresh hook for each that has a controller.
C12_NoneFilter ==
    \A rev \in BOOLEAN :
        /\ Applicable(Machine(rev), AllFilter) = RegValues(widgets)
        /\ DeleteCmd(Machine(rev), AllFilter).reg = <<>>
        /\ \A R \in {DisableCmd(Machine(rev), AllFilter)} :
                /\ \A w \in SeqToSet(RegValues(widgets)) : R.obj[w].disabled
                /\ HookArgs(R, "disable") = [i \in DOMAIN Controlled |-> <<Controlled[i]>>]
        /\ \A R \in {EnableCmd(Machine(rev), AllFilter)} :
                /\ \A w \in SeqToSet(RegValues(widgets)) : ~R.obj[w].disabled
                /\ HookArgs(R, "enable") = [i \in DOMAIN Controlled |-> <<Controlled[i]>>]
        /\ \A R \in {RefreshCmd(Machine(rev), AllFilter)} :
                /\ HookArgs(R, "widget.refresh")
                        = [i \in DOMAIN widgets |-> <<widgets[i].w>>]
                /\ HookArgs(R, "refresh") = [i \in DOMAIN Controlled |-> <<Controlled[i]>>]

\* the registry holds the host and rows of two body segments, some widget
\* is enabled, and delete() empties the registry
C12_Witness ==
    /\ Len(widgets) >= 4
    /\ Len(Controlled) >= 2
    /\ \E i \in DOMAIN widgets : ~obj[widgets[i].w].disabled
    /\ DeleteCmd(Machine(FALSE), AllFilter).reg = <<>>
    /\ \A w \in SeqToSet(RegValues(widgets)) :
            DisableCmd(Machine(FALSE), AllFilter).obj[w].disabled
    /\ Len(HookArgs(RefreshCmd(Machine(FALSE), AllFilter), "widget.refresh")) = Len(widgets)

\* C10: every key of the registry is section_id + "." + id of the metadata
\* of the widget stored under it, and that metadata exists.
C10_RegistryKeys ==
    \A i \in DOMAIN widgets :
        /\ widgets[i].w \in DOMAIN obj
        /\ obj[widgets[i].w].meta \in DOMAIN meta
        /\ widgets[i].name = meta[obj[widgets[i].w].meta].sec \o "."
                                \o meta[obj[widgets[i].w].meta].id

\* the registry holds the host, its header and two rows built from copies
C10_Witness ==
    /\ GetWidget(widgets, "s", "h") # NoRef
    /\ GetWidget(widgets, TemplateSection("h", "header"), "hd") # NoRef
    /\ GetWidget(widgets, BodySection, "k__0") # NoRef
    /\ GetWidget(widgets, BodySection, "k__1") # NoRef
    /\ obj[GetWidget(widgets, BodySection, "k__0")].meta
            # obj[GetWidget(widgets, BodySection, "k__1")].meta

---------------------------------------------------------------------------
(* Properties of the startup service, under SpecS. *)

\* C8: no task is running its own work (_run) while a name it depends on is
\* missing from finished_tasks.
C8_StartupDependencies ==
    \A t \in DOMAIN tasks :
        pc[t] \in {"running", "emitted", "done"} =>
            tasks[t] \subseteq SeqToSet(finished)

\* a task that depends on another is running, after the other finished
C8_Witness ==
    \E t \in DOMAIN tasks :
        /\ pc[t] = "running"
        /\ \E d \in tasks[t] : d # t /\ d \in DOMAIN tasks /\ d \in SeqToSet(finished)

RootBuilds == Cardinality({i \in DOMAIN built : built[i] = "root"})

\* C9: section root is built at most once; with tasks, never before every
\* task has reported finished; and once all have (or when there are none
\* and the service has started) exactly once.
C9_StartupCompletion ==
    /\ RootBuilds <= 1
    /\ (RootBuilds = 1 /\ Len(tasks) > 0) =>
            /\ Len(finished) = Len(tasks)
            /\ \A t \in DOMAIN tasks : pc[t] = "done" /\ t \in SeqToSet(finished)
    /\ (built # <<>> /\ Len(finished) = Len(tasks)) => RootBuilds = 1

\* three tasks have finished, not in the order they were registered, and
\* the root section was built after the wait section
C9_Witness ==
    /\ Len(tasks) = 3
    /\ Len(finished) = 3
    /\ finished[1] # 1
    /\ built = <<"wait", "root">>

\* the names task names ts depend on, directly or through at most n tasks
RECURSIVE Upstream(_, _)
Upstream(ts, n) ==
    IF n = 0 THEN ts
    ELSE Upstream(ts \cup UNION {tasks[d] : d \in ts \cap DOMAIN tasks}, n - 1)

\* every dependency names a registered task, and no task depends on itself,
\* directly or through others
WellFormedTasks ==
    /\ \A t \in DOMAIN tasks : tasks[t] \subseteq DOMAIN tasks
    /\ \A t \in DOMAIN tasks : t \notin Upstream(tasks[t], NTasks)

StartupDone ==
    /\ \A t \in DOMAIN tasks : t \in SeqToSet(finished)
    /\ "root" \in SeqToSet(built)

\* C29: once the service has been started with tasks whose declared
\* dependencies are all registered tasks and form no cycle, every task is
\* eventually in finished_tasks and the section root is eventually built.
C29_StartupLiveness == (built # <<>> /\ WellFormedTasks) ~> StartupDone

\* three tasks in a chain of dependencies, declared against the order of
\* registration, have all finished and root has been built after wait
C29_Witness ==
    /\ Len(tasks) = NTasks
    /\ WellFormedTasks
    /\ \E t \in DOMAIN tasks : Upstream(tasks[t], NTasks) = DOMAIN tasks \ {t}
    /\ tasks[1] # {}
    /\ StartupDone
    /\ built = <<"wait", "root">>

---------------------------------------------------------------------------
(* Properties of resolve_content, under SpecR. *)

\* does string s hold string sub
Contains(s, sub) ==
    \E i \in 1..(Len(s) - Len(sub) + 1) : SubSeq(s, i, i + Len(sub) - 1) = sub

\* content holds a token, and no resolver is registered under its name
FirstTokenUnregistered ==
    /\ MatchStart(content) # 0
    /\ ResolverName(TokenName(content)) \notin Resolvers

\* C14 as stated: resolve_content of a string whose token names an
\* unregistered resolver raises nothing and returns a string that still
\* holds the token's text.
C14_UnregisteredResolver ==
    (resolved # <<>> /\ FirstTokenUnregistered) =>
        /\ resolved.val.t = "str"
        /\ Contains(resolved.val.v, FullToken(content))

\* "prefix_date{year}_suffix" and "prefix_2024_suffix"
PrefixDateSuffix ==
    <<"p", "r", "e", "f", "i", "x", "_">> \o Token(Date, Year)
        \o <<"_", "s", "u", "f", "f", "i", "x">>

Prefix2024Suffix ==
    <<"p", "r", "e", "f", "i", "x", "_", "2", "0", "2", "4",
      "_", "s", "u", "f", "f", "i", "x">>

\* the registered token names
Registered == {Date, DateUpper, Tr}

\* in a token nested in a token, the inner resolver is called first and the
\* outer resolver is called with what the inner one returned
InnerBeforeOuter ==
    \A outer, inner \in Registered :
        (resolved # <<>> /\ content = Token(outer, Token(inner, Year))) =>
            /\ Len(resolved.calls) = 2
            /\ resolved.calls[1] = [name |-> Lower(inner), param |-> StrV(Year)]
            /\ resolved.calls[2] = [name |-> Lower(outer),
                                    param |-> CallResolver(ResolverName(inner), StrV(Year))]

\* C15 as stated: resolve_content("prefix_date{year}_suffix") is the string
\* "prefix_2024_suffix", and nested tokens are resolved inner before outer.
C15_TokenResolution ==
    /\ (resolved # <<>> /\ content = PrefixDateSuffix) =>
            resolved.val = StrV(Prefix2024Suffix)
    /\ InnerBeforeOuter

---------------------------------------------------------------------------
(* Properties of the filter builder, under SpecF. *)

\* "x IN (1, 2, 3)"
XIn123 ==
    <<"x", " ", "I", "N", " ", "(", "1", ",", " ", "2", ",", " ", "3", ")">>

\* get(x) of a filter built from where(x).equals(v) alone returns v
RoundTrip ==
    \A f \in Fields \ {NoneV}, v \in Values :
        ( /\ answer # <<>>
          /\ answer.op = "get"
          /\ answer.arg = f
          /\ criteria = <<Criterion(f.v, "=", v)>> ) => answer.val = v

\* C16 as stated: get(x) after where(x).equals(v).build() returns v, and
\* to_sql() of a filter built from where("x").among([1, 2, 3]) is a string
\* that holds "x IN (1, 2, 3)".
C16_FilterRoundTrip ==
    /\ RoundTrip
    /\ ( /\ answer # <<>>
         /\ answer.op = "to_sql"
         /\ criteria = <<Criterion(FieldX, "IN", <<IntV(1), IntV(2), IntV(3)>>)>> )
        => /\ answer.val.t = "str"
           /\ Contains(answer.val.v, XIn123)

\* C17 as stated: build() on a builder that holds no criterion, none of
\* where, also and either having added one, raises instead of returning.
C17_BuildWithoutWhere ==
    (answer # <<>> /\ answer.op = "build" /\ criteria = <<>>) =>
        answer.val.t = "raise"

---------------------------------------------------------------------------
(* Properties of __parse_qss, under SpecY. *)

\* .a { color: red; & .b { color: blue; } }
NestedSheet ==
    <<".", "a", " ", "{", " ", "c", "o", "l", "o", "r", ":", " ", "r", "e", "d", ";", " ", "&", " ", ".", "b", " ", "{", " ", "c", "o", "l", "o", "r", ":", " ", "b", "l", "u", "e", ";", " ", "}", " ", "}">>

\* the attribute-selector form of a class selector
AttrA == ClassSub(<<".", "a">>)

AttrB == ClassSub(<<".", "b">>)

\* C19: the block ".a { color: red; & .b { color: blue; } }" parses into
\* exactly two rules: the first has the selector [cls-a='true'] and the
\* property color: red, the second has the property color: blue and the
\* selector "& [cls-b='true']" with the first selector put in place of "&".
C19_StyleNesting ==
    (stylesheet = NestedSheet /\ blocks # <<>>) =>
        /\ Len(blocks.v) = 2
        /\ AttrA = <<"[", "c", "l", "s", "-", "a", "=", "'", "t", "r", "u", "e", "'", "]">>
        /\ blocks.v[1] = [selector |-> AttrA, properties |-> <<<<Color, Red>>>>]
        /\ blocks.v[2] = [selector |-> Replace(<<"&", " ">> \o AttrB, <<"&">>, AttrA),
                          properties |-> <<<<Color, Blue>>>>]

\* the nested block has been parsed, and the second rule came from the
\* recursive call on the content of the first
C19_Witness ==
    /\ stylesheet = NestedSheet
    /\ blocks # <<>>
    /\ Len(blocks.v) = 2
    /\ Len(ReadBlocks(stylesheet)) = 1

---------------------------------------------------------------------------
(* Properties of WidgetController.work, under SpecW. *)

\* the worker was started by work() and its on_finish has not run yet
InFlight(w) == wpc[w] \in {"running", "emitted"}

\* C20: from the work() call that starts a worker until the worker's
\* finished signal has been handled, window.is_blocked is True.
C20_BlockingWorker == \A w \in Workers : InFlight(w) => is_blocked

\* C28: a worker handed to work() while the window is blocked is dropped by
\* that call, which leaves the window blocked and queues nothing; a dropped
\* worker never runs and its finished signal is never queued.
C28_BlockedSubmit ==
    [][\A w \in Workers :
        /\ (is_blocked /\ wpc[w] = "new" /\ wpc'[w] # "new") =>
                (wpc'[w] = "dropped" /\ is_blocked' /\ queue' = queue)
        /\ wpc[w] = "dropped" =>
                (wpc'[w] = "dropped" /\ w \notin SeqToSet(queue'))]_vars

\* a worker was dropped while another was in flight; the other has
\* finished, the window is unblocked again and the dropped worker has not
\* run
C28_Witness ==
    \E w, v \in Workers :
        /\ wpc[w] = "dropped"
        /\ wpc[v] = "done"
        /\ ~is_blocked
        /\ queue = <<>>

\* the handler of a worker's finished signal leaves the window unblocked
UnblockedByOnFinish == [][OnFinish => ~is_blocked']_vars

\* a worker that work() started is followed by an unblocked window
EventuallyUnblocked == \A w \in Workers : (wpc[w] = "running") ~> ~is_blocked

====
